---- MODULE Spec2Model ----
(***************************************************************************)
(* A model of the assistant bridge: the action registry (ActionManager),   *)
(* the task registry (TaskManager) and the orchestrator's message          *)
(* handling, translated from the Python sources.                           *)
(*                                                                         *)
(* Conventions                                                             *)
(*  - A Python object lives in a heap, a function from references (small  *)
(*    numbers) to objects.  The registries' callers construct an object in *)
(*    the call that registers it, as _register_default_actions does, and   *)
(*    keep no reference: an object that no dict entry and no suspended     *)
(*    call refers to is freed.                                             *)
(*  - A Python dict is a sequence of [k, v] entries in insertion order.    *)
(*  - Optional values: None is << >>, a present value x is << x >>.        *)
(*  - A formatted string is the sequence of its fragments; a string the    *)
(*    code cuts or concatenates character-wise is a sequence of characters.*)
(*  - A dict result is a record.                                           *)
(***************************************************************************)
EXTENDS Integers, Sequences, FiniteSets, TLC

VARIABLES
    clock,          \* wall clock read by datetime.now()
    held_actions,   \* Action objects the caller holds that are in no registry
    held_tasks,     \* Task objects the caller holds that are in no registry
    action_objs,    \* heap of live Action objects: reference -> object
    actions,        \* ActionManager.actions : dict action_id -> Action
    session,        \* ActionManager.session : Optional client
    clients,        \* every aiohttp.ClientSession created so far
    action_calls,   \* ActionManager.execute calls suspended on their outbound call
    action_ret,     \* the last call on the action registry and what it returned
    task_objs,      \* heap of live Task objects: reference -> object
    tasks,          \* TaskManager.tasks : dict task_id -> Task
    tm_running,     \* TaskManager.is_running
    task_ret,       \* the last call on the task registry and what it returned
    agent,          \* Orchestrator.agent : Optional BaseAgent
    action_manager, \* Orchestrator.action_manager : Optional ActionManager
    task_manager,   \* Orchestrator.task_manager : Optional TaskManager
    telegram,       \* Orchestrator.telegram : Optional TelegramListener
    is_running,     \* Orchestrator.is_running
    session_data,   \* Orchestrator.session_data : dict session_key -> record
    session_history,\* BaseAgent.session_history
    hm_log,         \* the caller's log: handle_message calls made, per (user_id, chat_id)
    hm_ret,         \* the last handle_message call and what it returned
    listeners,      \* heap of live TelegramListener objects: reference -> object
    starts,         \* start() calls suspended while the Telegram application starts
    stops,          \* stop() calls suspended while the Telegram application shuts down
    life_ret,       \* the last lifecycle call and how it ended
    agent_ret,      \* the last call on the agent wrapper and what it returned
    tg_trace,       \* what the last handler call that ended sent out, in order
    tg_calls,       \* handler calls suspended on an awaited Bot API call
    web_events,     \* startup / shutdown events the web application has seen
    web_ret,        \* the last HTTP request of the web application and its answer
    app,            \* the Application object of the entry point, once constructed
    app_ret,        \* the last call on the Application and how it ended
    hm_calls        \* handle_message calls suspended on the awaited agent call

vars == <<clock, held_actions, held_tasks, action_objs, actions, session, clients, action_calls, action_ret,
          task_objs, tasks, tm_running, task_ret,
          agent, action_manager, task_manager, telegram, is_running,
          session_data, session_history, hm_log, hm_ret,
          listeners, starts, stops, life_ret,
          agent_ret, tg_trace, tg_calls, web_events, web_ret, app, app_ret, hm_calls>>

actionVars == <<held_actions, action_objs, actions, session, clients, action_calls,
               action_ret>>
taskVars == <<held_tasks, task_objs, tasks, tm_running, task_ret>>
lifeVars == <<listeners, starts, stops, life_ret>>
frontVars == <<agent_ret, tg_trace, tg_calls, web_events, web_ret, app, app_ret, hm_calls>>
orchVars == <<agent, action_manager, task_manager, telegram, is_running,
              session_data, session_history, hm_log, hm_ret, lifeVars, frontVars>>

----------------------------------------------------------------------------
(* Bounds of the model. *)

MaxClock == 1
MaxExec == 2
MaxInflight == 2
MaxHeld == 1
MaxMessages == 3
MaxListeners == 2
MaxClients == 2

----------------------------------------------------------------------------
(* Python values. *)

None == << >>
Some(x) == << x >>
EmptyDict == << >>

\* d.get(k, default) on a dict result modelled as a record
RecGet(d, k, default) == IF k \in DOMAIN d THEN d[k] ELSE default

\* Python dict: insertion-ordered entries
DictHas(d, k) == \E i \in 1..Len(d) : d[i].k = k
DictGet(d, k) == d[CHOOSE i \in 1..Len(d) : d[i].k = k].v
DictSet(d, k, v) ==
    IF DictHas(d, k)
    THEN [i \in 1..Len(d) |-> IF d[i].k = k THEN [k |-> k, v |-> v] ELSE d[i]]
    ELSE Append(d, [k |-> k, v |-> v])
DictPop(d, k) == SelectSeq(d, LAMBDA e : e.k # k)
DictKeys(d) == [i \in 1..Len(d) |-> d[i].k]
DictValues(d) == [i \in 1..Len(d) |-> d[i].v]

\* the heap: allocation of a fresh reference, and reference counting
FreshRef(heap) ==
    CHOOSE r \in 1..(Cardinality(DOMAIN heap) + 1) :
        /\ r \notin DOMAIN heap
        /\ \A q \in 1..(r - 1) : q \in DOMAIN heap
Alloc(heap, obj) == [r \in DOMAIN heap \cup {FreshRef(heap)} |->
                        IF r \in DOMAIN heap THEN heap[r] ELSE obj]
Collect(heap, live) == [r \in DOMAIN heap \cap live |-> heap[r]]
DictRefs(d) == {d[i].v : i \in 1..Len(d)}

\* datetime.isoformat() and datetime.strftime(fmt)
IsoFormat(t) == <<"iso", t>>
StrFTime(t, fmt) == <<fmt, t>>

\* x in a sequence
InSeq(x, s) == \E i \in 1..Len(s) : s[i] = x

----------------------------------------------------------------------------
(* Action objects (action_manager.py). *)

\* Action.__init__
NewAction(cls, action_id, name, description, action_type, enabled, now) ==
    [cls |-> cls, action_id |-> action_id, name |-> name,
     description |-> description, action_type |-> action_type,
     enabled |-> enabled, created_at |-> now,
     execution_count |-> 0, last_execution |-> None, session |-> None]

WebSearchAction(now) ==
    NewAction("WebSearchAction", "web_search", "Web Search",
              "Perform web searches using DuckDuckGo", "api", TRUE, now)
HttpRequestAction(now) ==
    NewAction("HttpRequestAction", "http_request", "HTTP Request",
              "Make HTTP requests to external APIs", "api", TRUE, now)
WeatherAction(now) ==
    NewAction("WeatherAction", "weather", "Weather Info",
              "Get weather information for a location", "api", TRUE, now)
TimeAction(now) ==
    NewAction("TimeAction", "time", "Time & Date",
              "Get current time and date information", "function", TRUE, now)
SystemInfoAction(now) ==
    NewAction("SystemInfoAction", "system_info", "System Info",
              "Get basic system information", "function", TRUE, now)

\* hasattr(action, 'set_session')
HasSetSession(obj) ==
    obj.cls \in {"WebSearchAction", "HttpRequestAction", "WeatherAction"}

\* Action.execute, the state change: the counter and the timestamp
BaseExecuteObjTwice(obj, now) ==
    [obj EXCEPT !.execution_count = @ + 2, !.last_execution = Some(now)]
BaseExecuteObj(obj, now) ==
    [obj EXCEPT !.execution_count = @ + 1, !.last_execution = Some(now)]

\* Action.execute, the value returned
BaseExecuteResult(obj) ==
    [action_id |-> obj.action_id, status |-> "completed",
     executed_at |-> IsoFormat(obj.last_execution[1]),
     result |-> "Action executed successfully"]

\* register_action on a registry reg = [dict, heap]: action is the
\* reference passed, to an object of the heap; gives [value |-> what is
\* returned, dict, heap afterwards]
RegisterIntoOverwriting(reg, action) ==
    [value |-> TRUE,
     dict |-> DictSet(reg.dict, reg.heap[action].action_id, action),
     heap |-> reg.heap]
RegisterInto(reg, action) ==
    IF DictHas(reg.dict, reg.heap[action].action_id)
    THEN [value |-> FALSE, dict |-> reg.dict, heap |-> reg.heap]
    ELSE [value |-> TRUE,
          dict |-> DictSet(reg.dict, reg.heap[action].action_id, action),
          heap |-> reg.heap]

\* unregister_action on the dict: [value, dict afterwards]
UnregisterFromKeeping(d, action_id) ==
    [value |-> DictHas(d, action_id), dict |-> d]
UnregisterFrom(d, action_id) ==
    IF ~DictHas(d, action_id)
    THEN [value |-> FALSE, dict |-> d]
    ELSE [value |-> TRUE, dict |-> DictPop(d, action_id)]

\* the objects ActionManager.__init__ constructs, in order
DefaultActionObjs(now) ==
    <<WebSearchAction(now), HttpRequestAction(now), WeatherAction(now),
      TimeAction(now), SystemInfoAction(now)>>

RECURSIVE RegisterAll(_, _)
RegisterAll(objs, n) ==
    IF n = 0 THEN [value |-> TRUE, dict |-> << >>, heap |-> << >>]
    ELSE LET reg == RegisterAll(objs, n - 1) IN
         RegisterInto([dict |-> reg.dict, heap |-> Alloc(reg.heap, objs[n])],
                      FreshRef(reg.heap))

\* _register_default_actions, from the empty registry ActionManager.__init__ sets up
RegisterDefaultActions(now) ==
    RegisterAll(DefaultActionObjs(now), Len(DefaultActionObjs(now)))

\* one descriptor of list_actions
ActionDescriptor(obj) ==
    [action_id |-> obj.action_id, name |-> obj.name,
     description |-> obj.description, type |-> obj.action_type,
     enabled |-> obj.enabled, execution_count |-> obj.execution_count,
     last_execution |-> IF obj.last_execution # None
                        THEN Some(IsoFormat(obj.last_execution[1])) ELSE None]

\* list_actions over a given dict and heap
ListActionsOf(d, objs) == [i \in 1..Len(d) |-> ActionDescriptor(objs[d[i].v])]

\* list_actions
ListActions == ListActionsOf(actions, action_objs)

\* get_action_info
GetActionInfo(action_id) ==
    IF ~DictHas(actions, action_id) THEN None
    ELSE LET obj == action_objs[DictGet(actions, action_id)] IN
         Some([action_id |-> obj.action_id, name |-> obj.name,
               description |-> obj.description, type |-> obj.action_type,
               enabled |-> obj.enabled, execution_count |-> obj.execution_count,
               last_execution |-> IF obj.last_execution # None
                                  THEN Some(IsoFormat(obj.last_execution[1]))
                                  ELSE None,
               created_at |-> IsoFormat(obj.created_at)])

\* the ids a list output names
ListedIds(listing) == {listing[i].action_id : i \in 1..Len(listing)}

\* the error results of ActionManager.execute
NotFoundResultAnonymous(action_id) ==
    [action_id |-> action_id, status |-> "error", error |-> <<"Action not found">>]
NotFoundResult(action_id) ==
    [action_id |-> action_id, status |-> "error",
     error |-> <<"Action ", action_id, " not found">>]
DisabledResult(action_id) ==
    [action_id |-> action_id, status |-> "error",
     error |-> <<"Action ", action_id, " is disabled">>]
\* the except branch of ActionManager.execute
RaisedResult(action_id, e) ==
    [action_id |-> action_id, status |-> "error", error |-> <<e>>]


----------------------------------------------------------------------------
(* The concrete actions' execute methods.  A method runs without            *)
(* interleaving up to its outbound call (the only real suspension point);   *)
(* ExecuteUntilAwait is that prefix, applied to the object as               *)
(* super().execute left it, and ExecuteAfterAwait the part after the call.  *)

ResponseLimit == 1000

Take(s, n) == SubSeq(s, 1, IF Len(s) < n THEN Len(s) ELSE n)

Returned(value) == [kind |-> "return", value |-> value]
Raised(e) == [kind |-> "raise", e |-> e]
Awaiting == [kind |-> "await"]

\* TimeAction.execute after super().execute
TimeExecute(obj, now) ==
    [action_id |-> obj.action_id, status |-> "completed",
     executed_at |-> IsoFormat(obj.last_execution[1]),
     result |-> [current_time |-> StrFTime(now, "%H:%M:%S"),
                 current_date |-> StrFTime(now, "%Y-%m-%d"),
                 day_of_week |-> StrFTime(now, "%A"),
                 timestamp |-> IsoFormat(now)]]

\* SystemInfoAction.execute after super().execute; info is what platform and
\* psutil report
SystemInfoExecute(obj, info) ==
    [action_id |-> obj.action_id, status |-> "completed",
     executed_at |-> IsoFormat(obj.last_execution[1]),
     result |-> info]

\* the value of the optional "method" parameter, with its type: only a str
\* has the upper() that HttpRequestAction.execute calls
StrValue(s) == <<"str", s>>
IntValue(n) == <<"int", n>>
IsStr(v) == v[1] = "str"

\* the parameter checks that answer with an error result
ParamErrorCompleted(obj, text) ==
    [action_id |-> obj.action_id, status |-> "completed", error |-> <<text>>]
ParamError(obj, text) ==
    [action_id |-> obj.action_id, status |-> "error", error |-> <<text>>]

\* env: [psutil |-> whether "import psutil" succeeds, info |-> the report]
ExecuteUntilAwait(obj, params, now, env) ==
    CASE obj.cls = "Action" -> Returned(BaseExecuteResult(obj))
      [] obj.cls = "TimeAction" -> Returned(TimeExecute(obj, now))
      [] obj.cls = "SystemInfoAction" ->
            IF env.psutil THEN Returned(SystemInfoExecute(obj, env.info))
            ELSE Raised("No module named 'psutil'")
      [] obj.cls = "WebSearchAction" ->
            IF RecGet(params, "query", "") = ""
            THEN Returned(ParamError(obj, "Query parameter is required"))
            ELSE Awaiting
      [] obj.cls = "HttpRequestAction" ->
            IF params = EmptyDict
            THEN Returned(ParamError(obj, "Parameters are required"))
            ELSE IF ~IsStr(RecGet(params, "method", StrValue("GET")))
            THEN Raised("'int' object has no attribute 'upper'")
            ELSE IF RecGet(params, "url", "") = ""
            THEN Returned(ParamError(obj, "URL parameter is required"))
            ELSE Awaiting
      [] obj.cls = "WeatherAction" ->
            IF RecGet(params, "location", "") = ""
            THEN Returned(ParamError(obj, "Location parameter is required"))
            ELSE Awaiting

FailedResult(obj, prefix, e) ==
    [action_id |-> obj.action_id, status |-> "error", error |-> <<prefix, e>>]

\* the texts of the first three related topics
RelatedTopics(data) ==
    LET topics == Take(RecGet(data, "RelatedTopics", << >>), 3)
    IN [i \in 1..Len(topics) |-> RecGet(topics[i], "Text", "")]

\* outcome: [ok |-> TRUE, data |-> the provider's answer] when the call and
\* the read of the body succeed, [ok |-> FALSE, e |-> message] when either raises
ExecuteAfterAwait(obj, params, outcome) ==
    CASE obj.cls = "WebSearchAction" ->
            IF ~outcome.ok THEN FailedResult(obj, "Web search failed: ", outcome.e)
            ELSE [action_id |-> obj.action_id, status |-> "completed",
                  executed_at |-> IsoFormat(obj.last_execution[1]),
                  result |-> [query |-> params.query,
                              abstract |-> RecGet(outcome.data, "Abstract", ""),
                              answer |-> RecGet(outcome.data, "Answer", ""),
                              definition |-> RecGet(outcome.data, "Definition", ""),
                              related_topics |-> RelatedTopics(outcome.data)]]
      [] obj.cls = "HttpRequestAction" ->
            IF ~outcome.ok THEN FailedResult(obj, "HTTP request failed: ", outcome.e)
            ELSE [action_id |-> obj.action_id, status |-> "completed",
                  executed_at |-> IsoFormat(obj.last_execution[1]),
                  result |-> [status_code |-> outcome.data.status,
                              headers |-> outcome.data.headers,
                              data |-> Take(outcome.data.text, ResponseLimit)]]
      [] obj.cls = "WeatherAction" ->
            IF ~outcome.ok THEN FailedResult(obj, "Weather lookup failed: ", outcome.e)
            ELSE LET conditions == RecGet(outcome.data, "current_condition", <<EmptyDict>>)
                 IN IF Len(conditions) = 0
                    THEN FailedResult(obj, "Weather lookup failed: ",
                                      "list index out of range")
                    ELSE LET current == conditions[1]
                             desc == RecGet(current, "weatherDesc", <<EmptyDict>>)
                         IN IF Len(desc) = 0
                            THEN FailedResult(obj, "Weather lookup failed: ",
                                              "list index out of range")
                            ELSE [action_id |-> obj.action_id, status |-> "completed",
                                  executed_at |-> IsoFormat(obj.last_execution[1]),
                                  result |-> [location |-> params.location,
                                              temperature |-> RecGet(current, "temp_C", ""),
                                              condition |-> RecGet(desc[1], "value", ""),
                                              humidity |-> RecGet(current, "humidity", ""),
                                              wind_speed |-> RecGet(current, "windspeedKmph", "")]]


----------------------------------------------------------------------------
(* ActionManager operations. *)

\* "params or {}"
ParamsOrEmpty(params) == IF params = None THEN EmptyDict ELSE params[1]

\* the object a caller constructs for register_action: one of the concrete
\* classes, or a plain Action(action_id, name, enabled=...)
MakeAction(ctor, now) ==
    CASE ctor.cls = "WebSearchAction" -> WebSearchAction(now)
      [] ctor.cls = "HttpRequestAction" -> HttpRequestAction(now)
      [] ctor.cls = "WeatherAction" -> WeatherAction(now)
      [] ctor.cls = "TimeAction" -> TimeAction(now)
      [] ctor.cls = "SystemInfoAction" -> SystemInfoAction(now)
      [] ctor.cls = "Action" ->
            NewAction("Action", ctor.action_id, ctor.action_id, "", "api",
                      ctor.enabled, now)

\* the references held by suspended calls
CallRefs(calls) == {calls[i].ref : i \in 1..Len(calls)}

\* register_action(action).  The caller passes an object it constructs for
\* the call (arg is what it constructs) or one it holds (arg.held is the
\* reference).  An object that is not stored and not held is dropped.
RegisterAction(arg) ==
    LET new == "cls" \in DOMAIN arg
        heap == IF new THEN Alloc(action_objs, MakeAction(arg, clock)) ELSE action_objs
        action == IF new THEN FreshRef(action_objs) ELSE arg.held
    IN
    /\ IF new THEN TRUE ELSE arg.held \in held_actions
    /\ LET r == RegisterInto([dict |-> actions, heap |-> heap], action)
           held == held_actions \ DictRefs(r.dict)
       IN
       /\ actions' = r.dict
       /\ held_actions' = held
       /\ action_objs' = Collect(r.heap, DictRefs(r.dict) \cup CallRefs(action_calls)
                                         \cup held)
       /\ action_ret' = [op |-> "register_action",
                         action_id |-> heap[action].action_id, value |-> r.value]
    /\ UNCHANGED <<clock, session, clients, action_calls>>
    /\ UNCHANGED <<taskVars, orchVars>>

\* unregister_action(action_id); popped is its local "action", the entry
\* removed.  keep: whether the caller holds a reference to that object.
UnregisterAction(action_id, keep) ==
    LET r == UnregisterFrom(actions, action_id)
        held == IF r.value /\ keep THEN held_actions \cup {DictGet(actions, action_id)}
                ELSE held_actions
    IN
    /\ (r.value /\ keep) => Cardinality(held_actions) < MaxHeld
    /\ actions' = r.dict
    /\ held_actions' = held
    /\ action_objs' = Collect(action_objs, DictRefs(r.dict) \cup CallRefs(action_calls)
                                               \cup held)
    /\ action_ret' = [op |-> "unregister_action", action_id |-> action_id,
                      value |-> r.value,
                      popped |-> IF r.value
                                 THEN Some(action_objs[DictGet(actions, action_id)])
                                 ELSE None]
    /\ UNCHANGED <<clock, session, clients, action_calls>>
    /\ UNCHANGED <<taskVars, orchVars>>

\* the test "if not action.enabled" of ActionManager.execute
ActionDisabledInverted(obj) == obj.enabled
ActionDisabled(obj) == ~obj.enabled

\* the caller assigns the public attribute: actions[action_id].enabled = b
SetActionEnabled(action_id, b) ==
    /\ DictHas(actions, action_id)
    /\ action_objs[DictGet(actions, action_id)].enabled # b
    /\ action_objs' = [action_objs EXCEPT ![DictGet(actions, action_id)].enabled = b]
    /\ action_ret' = [op |-> "set_enabled", action_id |-> action_id, value |-> b]
    /\ UNCHANGED <<clock, held_actions, actions, session, clients, action_calls>>
    /\ UNCHANGED <<taskVars, orchVars>>

\* the return of an execute call: start is the time of the call, ran the
\* object whose execute method was run (None when the registry rejected the call)
ExecuteReturn(action_id, start, ran, value) ==
    [op |-> "execute", action_id |-> action_id, start |-> start,
     ran |-> ran, value |-> value]

\* what a request on a closed aiohttp.ClientSession raises
SessionClosed == [ok |-> FALSE, e |-> "Session is closed"]

\* ActionManager.execute(action_id, params), up to the action's outbound call
Execute(action_id, params, env) ==
    IF ~DictHas(actions, action_id)
    THEN /\ action_ret' = ExecuteReturn(action_id, clock, None, NotFoundResult(action_id))
         /\ UNCHANGED <<clock, held_actions, action_objs, actions, session, clients, action_calls>>
         /\ UNCHANGED <<taskVars, orchVars>>
    ELSE LET ref == DictGet(actions, action_id)
             obj == action_objs[ref]
         IN
         IF ActionDisabled(obj)
         THEN /\ action_ret' = ExecuteReturn(action_id, clock, None,
                                             DisabledResult(action_id))
              /\ UNCHANGED <<clock, held_actions, action_objs, actions, session, clients, action_calls>>
              /\ UNCHANGED <<taskVars, orchVars>>
         ELSE LET clients1 == IF session = None THEN Append(clients, "open") ELSE clients
                  session1 == IF session = None THEN Some(Len(clients1)) ELSE session
                  obj1 == IF HasSetSession(obj)
                          THEN [obj EXCEPT !.session = session1] ELSE obj
                  obj2 == BaseExecuteObj(obj1, clock)
                  p == ParamsOrEmpty(params)
                  step0 == ExecuteUntilAwait(obj2, p, clock, env)
                  \* a request on a closed client raises before it suspends
                  step == IF step0.kind = "await" /\ clients1[obj2.session[1]] = "closed"
                          THEN Returned(ExecuteAfterAwait(obj2, p, SessionClosed))
                          ELSE step0
              IN
              /\ obj.execution_count < MaxExec
              /\ step.kind = "await" => Len(action_calls) < MaxInflight
              /\ session = None => Len(clients) < MaxClients
              /\ clients' = clients1
              /\ session' = session1
              /\ action_objs' = [action_objs EXCEPT ![ref] = obj2]
              /\ action_calls' =
                    IF step.kind = "await"
                    THEN Append(action_calls,
                                [ref |-> ref, action_id |-> action_id,
                                 start |-> clock, params |-> p])
                    ELSE action_calls
              /\ action_ret' =
                    CASE step.kind = "return" ->
                            ExecuteReturn(action_id, clock, Some(ref), step.value)
                      [] step.kind = "raise" ->
                            ExecuteReturn(action_id, clock, Some(ref),
                                          RaisedResult(action_id, step.e))
                      [] step.kind = "await" -> action_ret
              /\ UNCHANGED <<clock, held_actions, actions>>
              /\ UNCHANGED <<taskVars, orchVars>>

\* a sequence without its i-th element
RemoveAt(s, i) == [j \in 1..(Len(s) - 1) |-> IF j < i THEN s[j] ELSE s[j + 1]]

\* the outbound call of the i-th suspended execute ends and the call returns
Complete(i, outcome) ==
    /\ i \in 1..Len(action_calls)
    /\ LET call == action_calls[i]
           obj == action_objs[call.ref]
       IN action_ret' = ExecuteReturn(call.action_id, call.start, Some(call.ref),
                                      ExecuteAfterAwait(obj, call.params, outcome))
    /\ action_calls' = RemoveAt(action_calls, i)
    /\ action_objs' = Collect(action_objs,
                              DictRefs(actions) \cup CallRefs(RemoveAt(action_calls, i))
                                  \cup held_actions)
    /\ UNCHANGED <<clock, held_actions, actions, session, clients>>
    /\ UNCHANGED <<taskVars, orchVars>>

\* "async with action_manager": __aenter__ creates a client whether or not
\* the registry holds one already
AEnter ==
    /\ Len(clients) < MaxClients
    /\ clients' = Append(clients, "open")
    /\ session' = Some(Len(clients) + 1)
    /\ action_ret' = [op |-> "aenter"]
    /\ UNCHANGED <<clock, held_actions, action_objs, actions, action_calls>>
    /\ UNCHANGED <<taskVars, orchVars>>

\* __aexit__ closes the client the registry holds and keeps the reference
AExit ==
    /\ clients' = IF session = None THEN clients
                  ELSE [clients EXCEPT ![session[1]] = "closed"]
    /\ action_ret' = [op |-> "aexit"]
    /\ UNCHANGED <<clock, held_actions, action_objs, actions, session, action_calls>>
    /\ UNCHANGED <<taskVars, orchVars>>

\* time passes
Tick ==
    /\ clock < MaxClock
    /\ clock' = clock + 1
    /\ UNCHANGED <<actionVars, taskVars, orchVars>>


----------------------------------------------------------------------------
(* Task objects and the TaskManager (task_manager.py). *)

\* Task.__init__
NewTask(cls, task_id, name, description, schedule, enabled, now) ==
    [cls |-> cls, task_id |-> task_id, name |-> name, description |-> description,
     schedule |-> schedule, enabled |-> enabled, created_at |-> now,
     last_run |-> None, run_count |-> 0, status |-> "pending"]

\* HealthCheckTask()
HealthCheckTask(now) ==
    NewTask("HealthCheckTask", "health_check", "System Health Check",
            "Performs periodic health checks on all system components",
            Some("*/5 * * * *"), TRUE, now)

\* NotificationTask(message, chat_id)
NotificationTask(message, chat_id, now) ==
    NewTask("NotificationTask", <<"notification_", chat_id>>, "Periodic Notification",
            <<"Sends periodic notifications to chat ", chat_id>>, None, TRUE, now)
    @@ [message |-> message, chat_id |-> chat_id]

\* the object a caller constructs for add_task
MakeTask(ctor, now) ==
    CASE ctor.cls = "HealthCheckTask" -> HealthCheckTask(now)
      [] ctor.cls = "NotificationTask" -> NotificationTask(ctor.message, ctor.chat_id, now)
      [] ctor.cls = "Task" ->
            NewTask("Task", ctor.task_id, ctor.task_id, "", None, ctor.enabled, now)

\* Task.execute, the state change
TaskExecuteObj(obj, now) ==
    [obj EXCEPT !.last_run = Some(now), !.run_count = @ + 1, !.status = "completed"]

\* Task.execute, the value returned
TaskExecuteResult(obj) ==
    [task_id |-> obj.task_id, status |-> "completed",
     executed_at |-> IsoFormat(obj.last_run[1]),
     result |-> <<"Task executed successfully">>]

\* the execute method of the task's class, applied to the object as
\* super().execute left it.  orch is the manager's orchestrator reference:
\* None, or Some([health |-> what its health_check() gives,
\*                telegram |-> whether it has a listener])
TaskExecute(obj, orch) ==
    CASE obj.cls = "Task" -> TaskExecuteResult(obj)
      [] obj.cls = "HealthCheckTask" ->
            [task_id |-> obj.task_id, status |-> "completed",
             executed_at |-> IsoFormat(obj.last_run[1]),
             result |-> IF orch # None THEN orch[1].health
                        ELSE <<"Health check completed (no orchestrator)">>]
      [] obj.cls = "NotificationTask" ->
            IF orch # None /\ orch[1].telegram
            THEN [task_id |-> obj.task_id, status |-> "completed",
                  executed_at |-> IsoFormat(obj.last_run[1]),
                  result |-> <<"Notification sent to ", obj.chat_id>>]
            ELSE [task_id |-> obj.task_id, status |-> "error",
                  executed_at |-> IsoFormat(obj.last_run[1]),
                  result |-> <<"No telegram integration available">>]

\* TaskManager.orchestrator: Orchestrator.initialize constructs TaskManager()
TmOrchestrator == None

\* add_task on a registry reg = [dict, heap]: task is the reference
\* passed, to an object of the heap; [value, dict, heap afterwards]
AddInto(reg, task) ==
    IF DictHas(reg.dict, reg.heap[task].task_id)
    THEN [value |-> FALSE, dict |-> reg.dict, heap |-> reg.heap]
    ELSE [value |-> TRUE,
          dict |-> DictSet(reg.dict, reg.heap[task].task_id, task),
          heap |-> reg.heap]

\* remove_task on the dict: [value, dict afterwards]
RemoveFrom(d, task_id) ==
    IF ~DictHas(d, task_id)
    THEN [value |-> FALSE, dict |-> d]
    ELSE [value |-> TRUE, dict |-> DictPop(d, task_id)]

\* get_task_status over a given dict and heap
TaskStatusOf(d, objs, task_id) ==
    IF ~DictHas(d, task_id) THEN None
    ELSE LET obj == objs[DictGet(d, task_id)] IN
         Some([task_id |-> obj.task_id, name |-> obj.name,
               description |-> obj.description, enabled |-> obj.enabled,
               status |-> obj.status, created_at |-> IsoFormat(obj.created_at),
               last_run |-> IF obj.last_run # None
                            THEN Some(IsoFormat(obj.last_run[1])) ELSE None,
               run_count |-> obj.run_count])

\* list_tasks over a given dict and heap
ListTasksOf(d, objs) == [i \in 1..Len(d) |-> TaskStatusOf(d, objs, d[i].k)[1]]

\* list_tasks
ListTasks == ListTasksOf(tasks, task_objs)

\* the task ids a list output names
ListedTaskIds(listing) == {listing[i].task_id : i \in 1..Len(listing)}

\* add_task(task).  The caller passes an object it constructs for the call
\* (arg is what it constructs) or one it holds (arg.held is the reference).
AddTask(arg) ==
    LET new == "cls" \in DOMAIN arg
        heap == IF new THEN Alloc(task_objs, MakeTask(arg, clock)) ELSE task_objs
        task == IF new THEN FreshRef(task_objs) ELSE arg.held
    IN
    /\ IF new THEN TRUE ELSE arg.held \in held_tasks
    /\ LET r == AddInto([dict |-> tasks, heap |-> heap], task)
           held == held_tasks \ DictRefs(r.dict)
       IN
       /\ tasks' = r.dict
       /\ held_tasks' = held
       /\ task_objs' = Collect(r.heap, DictRefs(r.dict) \cup held)
       /\ task_ret' = [op |-> "add_task", task_id |-> heap[task].task_id,
                       value |-> r.value]
    /\ UNCHANGED <<clock, tm_running>>
    /\ UNCHANGED <<actionVars, orchVars>>

\* remove_task(task_id); popped is its local "task", the entry removed.
\* keep: whether the caller holds a reference to that object.
RemoveTask(task_id, keep) ==
    LET r == RemoveFrom(tasks, task_id)
        held == IF r.value /\ keep THEN held_tasks \cup {DictGet(tasks, task_id)}
                ELSE held_tasks
    IN
    /\ (r.value /\ keep) => Cardinality(held_tasks) < MaxHeld
    /\ tasks' = r.dict
    /\ held_tasks' = held
    /\ task_objs' = Collect(task_objs, DictRefs(r.dict) \cup held)
    /\ task_ret' = [op |-> "remove_task", task_id |-> task_id, value |-> r.value,
                    popped |-> IF r.value THEN Some(task_objs[DictGet(tasks, task_id)])
                               ELSE None]
    /\ UNCHANGED <<clock, tm_running>>
    /\ UNCHANGED <<actionVars, orchVars>>

\* the return of an execute_task call; value is Optional: None or Some(dict)
ExecuteTaskReturn(task_id, start, ran, value) ==
    [op |-> "execute_task", task_id |-> task_id, start |-> start,
     ran |-> ran, value |-> value]

\* the test "if not task.enabled" of execute_task
TaskDisabledNever(obj) == FALSE
TaskDisabled(obj) == ~obj.enabled

\* what execute_task returns for a task_id that is not registered
UnknownTaskResult(task_id) == None

\* execute_task(task_id)
ExecuteTask(task_id) ==
    IF ~DictHas(tasks, task_id)
    THEN /\ task_ret' = ExecuteTaskReturn(task_id, clock, None,
                                          UnknownTaskResult(task_id))
         /\ UNCHANGED <<clock, held_tasks, task_objs, tasks, tm_running>>
         /\ UNCHANGED <<actionVars, orchVars>>
    ELSE LET ref == DictGet(tasks, task_id)
             obj == task_objs[ref]
         IN
         IF TaskDisabled(obj)
         THEN /\ task_ret' = ExecuteTaskReturn(task_id, clock, None, None)
              /\ UNCHANGED <<clock, held_tasks, task_objs, tasks, tm_running>>
              /\ UNCHANGED <<actionVars, orchVars>>
         ELSE LET obj1 == TaskExecuteObj(obj, clock) IN
              /\ obj.run_count < MaxExec
              /\ task_objs' = [task_objs EXCEPT ![ref] = obj1]
              /\ task_ret' = ExecuteTaskReturn(task_id, clock, Some(ref),
                                               Some(TaskExecute(obj1, TmOrchestrator)))
              /\ UNCHANGED <<clock, held_tasks, tasks, tm_running>>
              /\ UNCHANGED <<actionVars, orchVars>>

SetTaskEnabledResetting(task_id, b) ==
    IF ~DictHas(tasks, task_id)
    THEN /\ task_ret' = [op |-> IF b THEN "enable_task" ELSE "disable_task",
                         task_id |-> task_id, value |-> FALSE]
         /\ UNCHANGED <<clock, held_tasks, task_objs, tasks, tm_running>>
         /\ UNCHANGED <<actionVars, orchVars>>
    ELSE /\ task_objs' = [task_objs EXCEPT ![DictGet(tasks, task_id)].enabled = b,
                                           ![DictGet(tasks, task_id)].run_count = 0]
         /\ task_ret' = [op |-> IF b THEN "enable_task" ELSE "disable_task",
                         task_id |-> task_id, value |-> TRUE]
         /\ UNCHANGED <<clock, held_tasks, tasks, tm_running>>
         /\ UNCHANGED <<actionVars, orchVars>>

\* enable_task(task_id) (b = TRUE) and disable_task(task_id) (b = FALSE)
SetTaskEnabled(task_id, b) ==
    IF ~DictHas(tasks, task_id)
    THEN /\ task_ret' = [op |-> IF b THEN "enable_task" ELSE "disable_task",
                         task_id |-> task_id, value |-> FALSE]
         /\ UNCHANGED <<clock, held_tasks, task_objs, tasks, tm_running>>
         /\ UNCHANGED <<actionVars, orchVars>>
    ELSE /\ task_objs' = [task_objs EXCEPT ![DictGet(tasks, task_id)].enabled = b]
         /\ task_ret' = [op |-> IF b THEN "enable_task" ELSE "disable_task",
                         task_id |-> task_id, value |-> TRUE]
         /\ UNCHANGED <<clock, held_tasks, tasks, tm_running>>
         /\ UNCHANGED <<actionVars, orchVars>>

EnableTask(task_id) == SetTaskEnabled(task_id, TRUE)
DisableTask(task_id) == SetTaskEnabled(task_id, FALSE)


----------------------------------------------------------------------------
(* The agent wrapper (base_agent.py). *)

\* s is an initial part of t
IsPrefix(s, t) == Len(s) <= Len(t) /\ SubSeq(t, 1, Len(s)) = s

ApologyPrefix == "I apologize, but I encountered an error processing your message"
FormattingTrouble == <<"I generated a response but had trouble formatting it properly.">>

\* a value of a response field whose truth test or str() raises
Unprintable == "<raises>"

\* the fields _extract_response tries, in its order
ResponseFieldsReversed == <<"text", "message", "response", "content">>
ResponseFields == <<"content", "response", "message", "text">>

\* the first field the response has with a true (non-empty) value, 0 if none
FirstField(run_response) ==
    IF \E i \in 1..Len(ResponseFields) :
          /\ ResponseFields[i] \in DOMAIN run_response
          /\ run_response[ResponseFields[i]] # ""
    THEN CHOOSE i \in 1..Len(ResponseFields) :
          /\ ResponseFields[i] \in DOMAIN run_response
          /\ run_response[ResponseFields[i]] # ""
          /\ \A j \in 1..(i - 1) :
                ~(/\ ResponseFields[j] \in DOMAIN run_response
                  /\ run_response[ResponseFields[j]] # "")
    ELSE 0

\* BaseAgent._extract_response: the text, as a sequence of fragments.
\* run_response is a record: the attributes the framework's object has, and
\* under "str" what str() of the whole object gives
ExtractResponse(run_response) ==
    LET i == FirstField(run_response)
        picked == IF i = 0 THEN run_response.str ELSE run_response[ResponseFields[i]]
    IN IF picked = Unprintable THEN FormattingTrouble ELSE <<picked>>

\* whether _extract_response went through its except branch
ExtractFaulted(run_response) ==
    LET i == FirstField(run_response)
        picked == IF i = 0 THEN run_response.str ELSE run_response[ResponseFields[i]]
    IN picked = Unprintable

ProcessMessageLeaking(history, message, run) ==
    IF run.raised
    THEN [value |-> <<run.e>>, history |-> history, fault |-> "agent_run"]
    ELSE [value |-> ExtractResponse(run.response), history |-> history,
          fault |-> IF ExtractFaulted(run.response) THEN "extract_response" ELSE "none"]

ProcessMessageUserOnly(history, message, run) ==
    IF run.raised
    THEN [value |-> <<ApologyPrefix, ": ", run.e>>, history |-> history,
          fault |-> "agent_run"]
    ELSE [value |-> ExtractResponse(run.response),
          history |-> Append(history, [role |-> "user", content |-> <<message>>]),
          fault |-> IF ExtractFaulted(run.response) THEN "extract_response" ELSE "none"]

\* BaseAgent.process_message(message).  run is what agent.run does:
\* [raised |-> TRUE, e |-> message] or [raised |-> FALSE, response |-> object].
\* Gives [value |-> the reply, history |-> session_history afterwards,
\*        fault |-> the except branch taken, if any]
ProcessMessage(history, message, run) ==
    IF run.raised
    THEN [value |-> <<ApologyPrefix, ": ", run.e>>, history |-> history,
          fault |-> "agent_run"]
    ELSE LET response == ExtractResponse(run.response) IN
         [value |-> response,
          history |-> history \o <<[role |-> "user", content |-> <<message>>],
                                   [role |-> "assistant", content |-> response]>>,
          fault |-> IF ExtractFaulted(run.response) THEN "extract_response" ELSE "none"]

----------------------------------------------------------------------------
(* The orchestrator (orchestrator.py). *)

\* f"{user_id}_{chat_id}", character by character
SessionKey(user_id, chat_id) == user_id \o <<"_">> \o chat_id

\* d[k] = v on a dict modelled as a record
RecSet(d, k, v) == [x \in DOMAIN d \cup {k} |-> IF x = k THEN v ELSE d[x]]

\* the record handle_message creates for a new session key
NewSession(user_id, chat_id) ==
    [user_id |-> user_id, chat_id |-> chat_id, message_count |-> 0,
     created_at |-> "now"]

\* get_session_data(user_id, chat_id)
GetSessionData(user_id, chat_id) ==
    IF DictHas(session_data, SessionKey(user_id, chat_id))
    THEN DictGet(session_data, SessionKey(user_id, chat_id))
    ELSE EmptyDict

\* TelegramListener.__init__ (the bot token is present)
NewListener == [is_running |-> FALSE, application |-> None]

\* the listeners something still refers to: the one a reference in refs
\* points at, those a suspended start() holds, and those that are running
\* (the polling application holds the listener's handlers)
LiveListeners(heap, refs, frames) ==
    refs \cup {frames[i].listener : i \in 1..Len(frames)}
         \cup {r \in DOMAIN heap : heap[r].is_running}

\* the model the orchestrator hands to its agent: config.get("model_name", "gpt-4o")
DefaultModel == "gpt-4o"
ModelName ==
    IF app = None \/ app[1].orchestrator = None THEN DefaultModel
    ELSE app[1].orchestrator[1].model_name

\* the tools BaseAgent._initialize_agent hands to the framework's agent: the
\* reasoning toolkit, and the action toolkit when an orchestrator was given
AgentTools(orchestrator) ==
    <<"ReasoningTools">> \o
        (IF orchestrator # None THEN <<[toolkit |-> "ActionTools",
                                        orchestrator |-> orchestrator[1]]>>
         ELSE << >>)

\* BaseAgent(model_name, orchestrator): the orchestrator it keeps and its
\* tools; orchestrator is None when the argument is left out.  The model
\* name it was given is ModelName.
NewBaseAgent(orchestrator) ==
    [orchestrator |-> orchestrator, tools |-> AgentTools(orchestrator)]

\* The objects of a replaced registry that something still refers to (the
\* caller holds them, or a suspended call runs on them) stay alive beside the
\* objects of the new registry: new holds the new objects, the live ones of
\* heap follow in their order.  ref: where each of them is afterwards.
Rehomed(heap, live, new) ==
    LET old == DOMAIN heap \cap live
        base == Cardinality(DOMAIN new)
        to == [r \in old |-> base + Cardinality({q \in old : q <= r})]
    IN [ref |-> to,
        heap |-> [n \in DOMAIN new \cup {to[r] : r \in old} |->
                     IF n \in DOMAIN new THEN new[n]
                     ELSE heap[CHOOSE r \in old : to[r] = n]]]

\* Orchestrator.initialize() as a function of the state.  env: which
\* environment values are set.  BaseAgent() raises without the API key,
\* TelegramListener() without the bot token; what was constructed before the
\* exception stays assigned.
InitializeResult(env) ==
    LET kept == Collect(listeners, LiveListeners(listeners, {}, starts \o stops))
        managers == RegisterDefaultActions(clock)
        \* ActionManager() and TaskManager() are new registries; the objects
        \* of the old ones are not touched
        old_actions == Rehomed(action_objs, held_actions \cup CallRefs(action_calls),
                               managers.heap)
        old_tasks == Rehomed(task_objs, held_tasks, << >>)
    IN
    IF ~env.openai_api_key
    THEN [raised |-> TRUE, e |-> "OPENAI_API_KEY environment variable is required",
          agent |-> agent, session_history |-> session_history,
          action_manager |-> action_manager, task_manager |-> task_manager,
          telegram |-> telegram, listeners |-> listeners,
          action_objs |-> action_objs, actions |-> actions, session |-> session,
          action_calls |-> action_calls,
          task_objs |-> task_objs, tasks |-> tasks, tm_running |-> tm_running,
          held_actions |-> held_actions, held_tasks |-> held_tasks]
    ELSE [raised |-> ~env.telegram_bot_token,
          e |-> "TELEGRAM_BOT_TOKEN environment variable is required",
          agent |-> Some(NewBaseAgent(None)), session_history |-> << >>,
          action_manager |-> Some("ActionManager"),
          task_manager |-> Some("TaskManager"),
          telegram |-> IF env.telegram_bot_token THEN Some(FreshRef(kept)) ELSE telegram,
          listeners |-> IF env.telegram_bot_token THEN Alloc(kept, NewListener)
                        ELSE listeners,
          action_objs |-> old_actions.heap, actions |-> managers.dict,
          session |-> None,
          action_calls |-> [i \in 1..Len(action_calls) |->
                               [action_calls[i] EXCEPT
                                   !.ref = old_actions.ref[action_calls[i].ref]]],
          task_objs |-> old_tasks.heap, tasks |-> << >>, tm_running |-> FALSE,
          held_actions |-> {old_actions.ref[r] : r \in held_actions},
          held_tasks |-> {old_tasks.ref[r] : r \in held_tasks}]

\* the bound on the listeners kept alive
ListenersBounded(env) ==
    (env.openai_api_key /\ env.telegram_bot_token) =>
        Cardinality(DOMAIN Collect(listeners, LiveListeners(listeners, {}, starts \o stops)))
            < MaxListeners

\* how a lifecycle call ended; acted: whether it got past its first test
\* ("already running" for start, "not running" for stop)
LifeReturned(op, acted) == [op |-> op, raised |-> FALSE, acted |-> acted]
LifeRaised(op, e) == [op |-> op, raised |-> TRUE, acted |-> TRUE, e |-> e]
\* the call has not ended: it is suspended at an await
LifeSuspended(op) == [op |-> op, raised |-> FALSE, acted |-> TRUE, suspended |-> TRUE]

\* Orchestrator.initialize()
Initialize(env) ==
    LET r == InitializeResult(env) IN
    /\ ListenersBounded(env)
    /\ agent' = r.agent
    /\ session_history' = r.session_history
    /\ action_manager' = r.action_manager
    /\ task_manager' = r.task_manager
    /\ telegram' = r.telegram
    /\ listeners' = r.listeners
    /\ action_objs' = r.action_objs
    /\ actions' = r.actions
    /\ session' = r.session
    /\ action_calls' = r.action_calls
    /\ task_objs' = r.task_objs
    /\ tasks' = r.tasks
    /\ tm_running' = r.tm_running
    /\ held_actions' = r.held_actions
    /\ held_tasks' = r.held_tasks
    /\ life_ret' = IF r.raised THEN LifeRaised("initialize", r.e)
                   ELSE LifeReturned("initialize", TRUE)
    /\ UNCHANGED <<is_running, session_data, hm_log, hm_ret, frontVars, starts, stops>>
    /\ UNCHANGED <<clock, clients, action_ret, task_ret>>

\* the components as they are: what start() works with when it does not
\* call initialize()
CurrentComponents ==
    [raised |-> FALSE, e |-> "",
     agent |-> agent, session_history |-> session_history,
     action_manager |-> action_manager, task_manager |-> task_manager,
     telegram |-> telegram, listeners |-> listeners,
     action_objs |-> action_objs, actions |-> actions, session |-> session,
     action_calls |-> action_calls,
     task_objs |-> task_objs, tasks |-> tasks, tm_running |-> tm_running,
     held_actions |-> held_actions, held_tasks |-> held_tasks]

\* the assignments of initialize() inside start(), the listener heap and the
\* task registry's flag given separately
AssignComponents(r, lst, tmr) ==
    /\ agent' = r.agent
    /\ session_history' = r.session_history
    /\ action_manager' = r.action_manager
    /\ task_manager' = r.task_manager
    /\ telegram' = r.telegram
    /\ listeners' = lst
    /\ action_objs' = r.action_objs
    /\ actions' = r.actions
    /\ session' = r.session
    /\ action_calls' = r.action_calls
    /\ task_objs' = r.task_objs
    /\ tasks' = r.tasks
    /\ tm_running' = tmr
    /\ held_actions' = r.held_actions
    /\ held_tasks' = r.held_tasks

\* the frame of a start() call suspended in TelegramListener.start
StartFrame(by, ref) == [by |-> by, listener |-> ref]

\* the first test of start(), "if self.is_running", and of stop(),
\* "if not self.is_running"
AlreadyRunningNever(flag) == FALSE
AlreadyRunning(flag) == flag
NotRunningNever(flag) == FALSE
NotRunning(flag) == ~flag

\* Orchestrator.start(), up to the first await inside TelegramListener.start
StartCall(env) ==
    IF AlreadyRunning(is_running)
    THEN /\ life_ret' = LifeReturned("start", FALSE)
         /\ UNCHANGED <<agent, action_manager, task_manager, telegram, is_running,
                        session_data, session_history, hm_log, hm_ret,
                        listeners, starts, stops>>
         /\ UNCHANGED <<clock, actionVars, taskVars>>
    ELSE LET r == IF agent = None THEN InitializeResult(env) ELSE CurrentComponents IN
         /\ agent = None => ListenersBounded(env)
         /\ IF r.raised
            THEN \* initialize() raised: except branch of start()
                 /\ AssignComponents(r, r.listeners, r.tm_running)
                 /\ is_running' = FALSE
                 /\ starts' = starts
                 /\ life_ret' = LifeRaised("start", r.e)
            ELSE IF r.telegram = None
            THEN \* self.telegram.start() on None
                 /\ AssignComponents(r, r.listeners, r.tm_running)
                 /\ is_running' = FALSE
                 /\ starts' = starts
                 /\ life_ret' = LifeRaised("start",
                                           "'NoneType' object has no attribute 'start'")
            ELSE IF r.listeners[r.telegram[1]].is_running
            THEN \* the listener returns at once; task_manager.start() follows
                 /\ AssignComponents(r, r.listeners, TRUE)
                 /\ is_running' = TRUE
                 /\ starts' = starts
                 /\ life_ret' = LifeReturned("start", TRUE)
            ELSE /\ Len(starts) + Len(stops) < MaxInflight
                 /\ AssignComponents(r,
                        [r.listeners EXCEPT ![r.telegram[1]].application =
                                                Some("Application")],
                        r.tm_running)
                 /\ is_running' = TRUE
                 /\ starts' = Append(starts, StartFrame("orchestrator", r.telegram[1]))
                 /\ life_ret' = LifeSuspended("start")
         /\ UNCHANGED <<session_data, hm_log, hm_ret, stops>>
         /\ UNCHANGED <<clock, clients, action_ret, task_ret>>

\* Orchestrator.start(), called directly
Start(env) ==
    /\ StartCall(env)
    /\ UNCHANGED frontVars

\* the references the orchestrator holds to listeners
TelegramRefs == IF telegram = None THEN {} ELSE {telegram[1]}

\* TelegramListener.start() of the orchestrator's listener, called directly,
\* up to its first await
TelegramStart ==
    /\ telegram # None
    /\ IF listeners[telegram[1]].is_running
       THEN /\ life_ret' = LifeReturned("telegram.start", FALSE)
            /\ UNCHANGED <<listeners, starts, stops>>
       ELSE /\ Len(starts) + Len(stops) < MaxInflight
            /\ listeners' = [listeners EXCEPT ![telegram[1]].application =
                                                  Some("Application")]
            /\ starts' = Append(starts, StartFrame("listener", telegram[1]))
            /\ stops' = stops
            /\ life_ret' = LifeSuspended("telegram.start")
    /\ UNCHANGED <<agent, action_manager, task_manager, telegram, is_running,
                   session_data, session_history, hm_log, hm_ret, frontVars>>
    /\ UNCHANGED <<clock, actionVars, taskVars>>

\* a suspended start() resumes: the Telegram application started (ok) or
\* raised.  For the orchestrator's start(), task_manager.start() follows.
StartResumeCall(i, ok) ==
    /\ i \in 1..Len(starts)
    /\ LET f == starts[i]
           rest == RemoveAt(starts, i)
           lst == IF ok THEN [listeners EXCEPT ![f.listener].is_running = TRUE]
                  ELSE listeners
       IN
       /\ starts' = rest
       /\ listeners' = Collect(lst, LiveListeners(lst, TelegramRefs, rest \o stops))
       /\ is_running' = IF f.by = "orchestrator" /\ ~ok THEN FALSE ELSE is_running
       /\ tm_running' = IF f.by = "orchestrator" /\ ok THEN TRUE ELSE tm_running
       /\ life_ret' =
             IF ok
             THEN LifeReturned(IF f.by = "orchestrator" THEN "start"
                               ELSE "telegram.start", TRUE)
             ELSE LifeRaised(IF f.by = "orchestrator" THEN "start"
                             ELSE "telegram.start", "network error")
    /\ UNCHANGED <<agent, action_manager, task_manager, telegram,
                   session_data, session_history, hm_log, hm_ret, stops>>
    /\ UNCHANGED <<clock, actionVars, held_tasks, task_objs, tasks, task_ret>>

\* a suspended start() resumes, called directly
StartResume(i, ok) ==
    /\ StartResumeCall(i, ok)
    /\ UNCHANGED frontVars

\* the frame of a stop() call suspended in TelegramListener.stop, in one of
\* its three awaited shutdown calls (updater.stop, application.stop,
\* application.shutdown); nothing of the program changes between them
StopFrame(by, ref) == [by |-> by, listener |-> ref]

\* TelegramListener.stop() passes its test "if not self.is_running" and has
\* an application to shut down: it suspends
StopSuspends(lst, ref) == lst[ref].is_running /\ lst[ref].application # None

\* TelegramListener.stop() on a listener heap, after the shutdown calls: they
\* returned (ok) and the flag is cleared, or one raised, which stop() logs
\* and swallows with the flag still set
ListenerStopped(lst, ref, ok) ==
    IF lst[ref].is_running /\ ok
    THEN [lst EXCEPT ![ref].is_running = FALSE]
    ELSE lst

\* TelegramListener.stop() of the orchestrator's listener, called directly,
\* up to its first await
TelegramStop ==
    /\ telegram # None
    /\ IF StopSuspends(listeners, telegram[1])
       THEN /\ Len(starts) + Len(stops) < MaxInflight
            /\ stops' = Append(stops, StopFrame("listener", telegram[1]))
            /\ listeners' = listeners
            /\ life_ret' = LifeSuspended("telegram.stop")
       ELSE /\ stops' = stops
            /\ LET lst == ListenerStopped(listeners, telegram[1], TRUE) IN
               listeners' = Collect(lst, LiveListeners(lst, TelegramRefs, starts \o stops))
            /\ life_ret' = LifeReturned("telegram.stop",
                                        listeners[telegram[1]].is_running)
    /\ UNCHANGED <<agent, action_manager, task_manager, telegram, is_running,
                   session_data, session_history, hm_log, hm_ret, frontVars, starts>>
    /\ UNCHANGED <<clock, actionVars, taskVars>>

\* Orchestrator.stop(), up to the first await inside TelegramListener.stop;
\* when the listener has nothing to await, task_manager.stop() follows at once
StopCall ==
    IF NotRunning(is_running)
    THEN /\ life_ret' = LifeReturned("stop", FALSE)
         /\ UNCHANGED <<agent, action_manager, task_manager, telegram, is_running,
                        session_data, session_history, hm_log, hm_ret,
                        listeners, starts, stops>>
         /\ UNCHANGED <<clock, actionVars, taskVars>>
    ELSE /\ is_running' = FALSE
         /\ IF telegram # None /\ StopSuspends(listeners, telegram[1])
            THEN /\ Len(starts) + Len(stops) < MaxInflight
                 /\ stops' = Append(stops, StopFrame("orchestrator", telegram[1]))
                 /\ listeners' = listeners
                 /\ tm_running' = tm_running
                 /\ life_ret' = LifeSuspended("stop")
            ELSE /\ stops' = stops
                 /\ LET lst == IF telegram = None THEN listeners
                               ELSE ListenerStopped(listeners, telegram[1], TRUE)
                    IN listeners' = Collect(lst, LiveListeners(lst, TelegramRefs,
                                                               starts \o stops))
                 /\ tm_running' = IF task_manager = None THEN tm_running ELSE FALSE
                 /\ life_ret' = LifeReturned("stop", TRUE)
         /\ UNCHANGED <<agent, action_manager, task_manager, telegram,
                        session_data, session_history, hm_log, hm_ret, starts>>
         /\ UNCHANGED <<clock, actionVars, held_tasks, task_objs, tasks, task_ret>>

\* Orchestrator.stop(), called directly
Stop ==
    /\ StopCall
    /\ UNCHANGED frontVars

\* a suspended stop() resumes: the shutdown calls of the listener returned
\* (ok) or one of them raised.  For the orchestrator's stop(),
\* task_manager.stop() follows; stop() returns in either case.
StopResumeCall(i, ok) ==
    /\ i \in 1..Len(stops)
    /\ LET f == stops[i]
           rest == RemoveAt(stops, i)
           lst == ListenerStopped(listeners, f.listener, ok)
       IN
       /\ stops' = rest
       /\ listeners' = Collect(lst, LiveListeners(lst, TelegramRefs, starts \o rest))
       /\ tm_running' = IF f.by = "orchestrator" /\ task_manager # None THEN FALSE
                        ELSE tm_running
       /\ life_ret' = LifeReturned(IF f.by = "orchestrator" THEN "stop"
                                   ELSE "telegram.stop", TRUE)
    /\ UNCHANGED <<agent, action_manager, task_manager, telegram, is_running,
                   session_data, session_history, hm_log, hm_ret, starts>>
    /\ UNCHANGED <<clock, actionVars, held_tasks, task_objs, tasks, task_ret>>

\* a suspended stop() resumes, called directly
StopResume(i, ok) ==
    /\ StopResumeCall(i, ok)
    /\ UNCHANGED frontVars

\* TaskManager.start() and TaskManager.stop() of the orchestrator's task
\* registry, called directly
TaskManagerStart ==
    /\ task_manager # None
    /\ tm_running' = TRUE
    /\ life_ret' = LifeReturned("task_manager.start", ~tm_running)
    /\ UNCHANGED <<agent, action_manager, task_manager, telegram, is_running,
                   session_data, session_history, hm_log, hm_ret, frontVars, listeners, starts, stops>>
    /\ UNCHANGED <<clock, actionVars, held_tasks, task_objs, tasks, task_ret>>
TaskManagerStop ==
    /\ task_manager # None
    /\ tm_running' = FALSE
    /\ life_ret' = LifeReturned("task_manager.stop", tm_running)
    /\ UNCHANGED <<agent, action_manager, task_manager, telegram, is_running,
                   session_data, session_history, hm_log, hm_ret, frontVars, listeners, starts, stops>>
    /\ UNCHANGED <<clock, actionVars, held_tasks, task_objs, tasks, task_ret>>

\* Orchestrator.health_check(): what it reports in the current state
HealthCheck ==
    [orchestrator |-> is_running,
     agent |-> agent # None,
     telegram |-> IF telegram # None THEN listeners[telegram[1]].is_running ELSE FALSE,
     task_manager |-> IF task_manager # None THEN tm_running ELSE FALSE,
     action_manager |-> action_manager # None,
     active_sessions |-> Len(session_data)]

\* Orchestrator.execute_action(action_name, params): the registry's execute,
\* or the AttributeError of a missing registry, logged and raised again
ExecuteAction(action_name, params, env) ==
    IF action_manager = None
    THEN /\ life_ret' = LifeRaised("execute_action",
                                   "'NoneType' object has no attribute 'execute'")
         /\ UNCHANGED <<agent, action_manager, task_manager, telegram, is_running,
                        session_data, session_history, hm_log, hm_ret, frontVars,
                        listeners, starts, stops>>
         /\ UNCHANGED <<clock, actionVars, taskVars>>
    ELSE Execute(action_name, params, env)

\* the caller's log of handle_message calls, per (user_id, chat_id)
Logged(log, pair) == IF DictHas(log, pair) THEN DictGet(log, pair) ELSE 0
TotalLogged(log) ==
    LET RECURSIVE Sum(_)
        Sum(n) == IF n = 0 THEN 0 ELSE log[n].v + Sum(n - 1)
    IN Sum(Len(log))

\* Orchestrator.handle_message(message, user_id, chat_id); run is what the
\* framework's agent.run does in this call
HandleMessageCall(message, user_id, chat_id, run) ==
    LET key == SessionKey(user_id, chat_id)
        data1 == IF DictHas(session_data, key) THEN session_data
                 ELSE DictSet(session_data, key, NewSession(user_id, chat_id))
        rec1 == DictGet(data1, key)
        rec2 == RecSet([rec1 EXCEPT !.message_count = @ + 1], "last_message", message)
        data2 == DictSet(data1, key, rec2)
    IN
    /\ TotalLogged(hm_log) < MaxMessages
    /\ hm_log' = DictSet(hm_log, <<user_id, chat_id>>,
                         Logged(hm_log, <<user_id, chat_id>>) + 1)
    /\ IF agent = None
       THEN \* self.agent.process_message raises AttributeError
            /\ session_data' = data2
            /\ session_history' = session_history
            /\ hm_ret' = [op |-> "handle_message", user_id |-> user_id,
                          chat_id |-> chat_id, fault |-> "handle_message",
                          value |-> <<ApologyPrefix, ": ",
                                      "'NoneType' object has no attribute 'process_message'">>]
       ELSE LET r == ProcessMessage(session_history, message, run) IN
            /\ session_data' = DictSet(data2, key, RecSet(rec2, "last_response", r.value))
            /\ session_history' = r.history
            /\ hm_ret' = [op |-> "handle_message", user_id |-> user_id,
                          chat_id |-> chat_id, fault |-> r.fault, value |-> r.value]
    /\ UNCHANGED <<agent, action_manager, task_manager, telegram, is_running>>
    /\ UNCHANGED <<clock, actionVars, taskVars, lifeVars>>

\* handle_message called directly
HandleMessage(message, user_id, chat_id, run) ==
    /\ HandleMessageCall(message, user_id, chat_id, run)
    /\ UNCHANGED frontVars

\* handle_message up to "await self.agent.process_message(message)", when
\* that await yields to other calls: the session record is found or made and
\* counted, then the call is suspended.  Without an agent the attribute
\* lookup raises and the call returns the apology at once.
HandleMessageBegin(message, user_id, chat_id) ==
    LET key == SessionKey(user_id, chat_id)
        data1 == IF DictHas(session_data, key) THEN session_data
                 ELSE DictSet(session_data, key, NewSession(user_id, chat_id))
        rec1 == DictGet(data1, key)
        rec2 == RecSet([rec1 EXCEPT !.message_count = @ + 1], "last_message", message)
    IN
    /\ TotalLogged(hm_log) < MaxMessages
    /\ hm_log' = DictSet(hm_log, <<user_id, chat_id>>,
                         Logged(hm_log, <<user_id, chat_id>>) + 1)
    /\ session_data' = DictSet(data1, key, rec2)
    /\ IF agent = None
       THEN /\ hm_calls' = hm_calls
            /\ hm_ret' = [op |-> "handle_message", user_id |-> user_id,
                          chat_id |-> chat_id, fault |-> "handle_message",
                          value |-> <<ApologyPrefix, ": ",
                                      "'NoneType' object has no attribute 'process_message'">>]
       ELSE /\ Len(hm_calls) < MaxInflight
            /\ hm_calls' = Append(hm_calls, [key |-> key, message |-> message,
                                             user_id |-> user_id, chat_id |-> chat_id])
            /\ hm_ret' = hm_ret
    /\ UNCHANGED <<agent, action_manager, task_manager, telegram, is_running,
                   session_history>>
    /\ UNCHANGED <<clock, actionVars, taskVars, lifeVars>>
    /\ UNCHANGED <<agent_ret, tg_trace, tg_calls, web_events, web_ret, app, app_ret>>

\* the i-th suspended handle_message resumes: the agent processes the
\* message, the reply is written into the session record and returned
HandleMessageEnd(i, run) ==
    /\ i \in 1..Len(hm_calls)
    /\ LET call == hm_calls[i]
           r == ProcessMessage(session_history, call.message, run)
           rec == DictGet(session_data, call.key)
       IN
       /\ session_data' = DictSet(session_data, call.key,
                                  RecSet(rec, "last_response", r.value))
       /\ session_history' = r.history
       /\ hm_ret' = [op |-> "handle_message", user_id |-> call.user_id,
                     chat_id |-> call.chat_id, fault |-> r.fault, value |-> r.value]
    /\ hm_calls' = RemoveAt(hm_calls, i)
    /\ UNCHANGED <<agent, action_manager, task_manager, telegram, is_running, hm_log>>
    /\ UNCHANGED <<clock, actionVars, taskVars, lifeVars>>
    /\ UNCHANGED <<agent_ret, tg_trace, tg_calls, web_events, web_ret, app, app_ret>>


----------------------------------------------------------------------------
(* The agent wrapper's operations, called on the orchestrator's agent. *)

\* what the operations of the agent wrapper leave alone
agentFrame ==
    <<clock, actionVars, taskVars, lifeVars, agent, action_manager, task_manager,
      telegram, is_running, session_data, hm_log, hm_ret,
      tg_trace, tg_calls, web_events, web_ret, app, app_ret, hm_calls>>


\* BaseAgent.process_message(message), called directly
AgentProcessMessage(message, run) ==
    /\ agent # None
    /\ Len(session_history) < 2 * MaxMessages
    /\ LET r == ProcessMessage(session_history, message, run) IN
         /\ session_history' = r.history
         /\ agent_ret' = [op |-> "process_message", message |-> message,
                          value |-> r.value, fault |-> r.fault]
    /\ UNCHANGED agentFrame

\* BaseAgent._extract_response(run_response), called directly
ExtractResponseCall(run_response) ==
    /\ agent # None
    /\ agent_ret' = [op |-> "_extract_response", run_response |-> run_response,
                     text |-> ExtractResponse(run_response)]
    /\ UNCHANGED <<session_history, agentFrame>>

\* think and analyze: the reply of agent.run, or the text of their except branch
Reasoned(run, trouble) ==
    IF run.raised THEN <<trouble, run.e>> ELSE ExtractResponse(run.response)

\* BaseAgent.think(prompt)
Think(prompt, run) ==
    /\ agent # None
    /\ agent_ret' = [op |-> "think", prompt |-> <<prompt>>,
                     value |-> Reasoned(run, "I encountered an error while thinking: ")]
    /\ UNCHANGED <<session_history, agentFrame>>

\* BaseAgent.analyze(content)
Analyze(content, run) ==
    /\ agent # None
    /\ agent_ret' = [op |-> "analyze",
                     prompt |-> <<"Analyze the following content: ", content>>,
                     value |-> Reasoned(run, "I encountered an error while analyzing: ")]
    /\ UNCHANGED <<session_history, agentFrame>>

\* BaseAgent.get_session_history(): a copy of the transcript
GetSessionHistory ==
    /\ agent # None
    /\ agent_ret' = [op |-> "get_session_history", history |-> session_history]
    /\ UNCHANGED <<session_history, agentFrame>>

\* what clear_session_history assigns to the transcript
ClearedHistoryKept(history) == history
ClearedHistory(history) == << >>

\* BaseAgent.clear_session_history()
ClearSessionHistory ==
    /\ agent # None
    /\ session_history' = ClearedHistory(session_history)
    /\ agent_ret' = [op |-> "clear_session_history", before |-> Len(session_history)]
    /\ UNCHANGED agentFrame

\* BaseAgent.get_model_info(); has_session: whether the framework's agent
\* has a session attribute
GetModelInfo(has_session) ==
    /\ agent # None
    /\ agent_ret' = [op |-> "get_model_info",
                     info |-> [model_name |-> ModelName,
                                session_length |-> Len(session_history),
                                has_agno_session |-> has_session]]
    /\ UNCHANGED <<session_history, agentFrame>>


----------------------------------------------------------------------------
(* The listener's handler of free-text messages (telegram_listener.py). *)

\* str() of an integer id, character by character
DigitChars == <<"0", "1", "2", "3", "4", "5", "6", "7", "8", "9">>
RECURSIVE Digits(_)
Digits(n) ==
    IF n < 10 THEN <<DigitChars[n + 1]>>
    ELSE Digits(n \div 10) \o <<DigitChars[(n % 10) + 1]>>
DecStr(n) == IF n < 0 THEN <<"-">> \o Digits(0 - n) ELSE Digits(n)

\* the calls the handler makes, as they appear in tg_trace; ok: whether the
\* awaited call returned
ChatAction(chat_id, ok) ==
    [kind |-> "send_chat_action", chat_id |-> chat_id, action |-> "typing", ok |-> ok]
Forward(message, user_id, chat_id) ==
    [kind |-> "handle_message", message |-> message, user_id |-> user_id,
     chat_id |-> chat_id]
ReplyText(text, ok) == [kind |-> "reply_text", text |-> text, ok |-> ok]
HandlerRaised(e) == [kind |-> "raise", e |-> e]

\* the character both fixed replies start with, by its code point
CrossMark == "U+274C"

\* the reply without an orchestrator, and the reply of the except branch
FallbackReplyApology == <<ApologyPrefix>>
FallbackReply == <<CrossMark, " System not ready. Orchestrator not connected.">>
ErrorReply(e) == <<CrossMark, " I encountered an error processing your message: ", e>>

\* what a failed call to the Bot API raises
TimedOut == "Timed out"

\* a handler call suspended on the Bot API call named by at.  orch: whether
\* the listener was constructed with an orchestrator (then it is the
\* orchestrator's listener); user and chat: the integer ids of the update;
\* user_id and chat_id: the handler's locals; response: what it is about to
\* reply with; trace: the calls it has made that have ended
HandlerFrame(orch, message, user, chat) ==
    [orch |-> orch, message |-> message, user |-> user, chat |-> chat,
     user_id |-> DecStr(user), chat_id |-> DecStr(chat),
     at |-> "send_chat_action", response |-> << >>, trace |-> << >>]

\* TelegramListener.handle_message(update, context) up to its first await:
\* the ids are read from the update and the typing indicator is requested
ListenerHandleMessage(orch, message, user, chat) ==
    /\ orch => telegram # None
    /\ Len(tg_calls) < MaxInflight
    /\ tg_calls' = Append(tg_calls, HandlerFrame(orch, message, user, chat))
    /\ UNCHANGED <<agent, action_manager, task_manager, telegram, is_running,
                   session_data, session_history, hm_log, hm_ret>>
    /\ UNCHANGED <<clock, actionVars, taskVars, lifeVars>>
    /\ UNCHANGED <<agent_ret, tg_trace, web_events, web_ret, app, app_ret, hm_calls>>

\* the handler ends: what it sent out becomes the last trace
HandlerEnds(i, trace) ==
    /\ tg_calls' = RemoveAt(tg_calls, i)
    /\ tg_trace' = trace

\* the i-th suspended handler call resumes: the Bot API call it awaits has
\* returned (ok) or raised.  After the typing indicator the message goes to
\* the orchestrator, whose answer (the fixed string without an orchestrator)
\* is sent with reply_text; a call that raises inside the try block leads to
\* the reply_text of the except branch, and when that one raises the
\* exception leaves the handler.  run: what the framework's agent.run does
\* when the orchestrator is called.
ListenerResume(i, run, ok) ==
    /\ i \in 1..Len(tg_calls)
    /\ LET f == tg_calls[i] IN
       IF f.at = "send_chat_action" /\ ok /\ f.orch
       THEN /\ HandleMessageCall(f.message, f.user_id, f.chat_id, run)
            /\ tg_calls' =
                  [tg_calls EXCEPT ![i] =
                      [f EXCEPT !.at = "reply_text",
                                !.response = hm_ret'.value,
                                !.trace = <<ChatAction(f.chat_id, TRUE),
                                            Forward(f.message, f.user_id, f.chat_id)>>]]
            /\ tg_trace' = tg_trace
       ELSE /\ CASE f.at = "send_chat_action" /\ ok ->
                      tg_calls' = [tg_calls EXCEPT ![i] =
                                      [f EXCEPT !.at = "reply_text",
                                                !.response = FallbackReply,
                                                !.trace = <<ChatAction(f.chat_id, TRUE)>>]]
                      /\ tg_trace' = tg_trace
                 [] f.at = "send_chat_action" /\ ~ok ->
                      tg_calls' = [tg_calls EXCEPT ![i] =
                                      [f EXCEPT !.at = "error_reply",
                                                !.trace = <<ChatAction(f.chat_id, FALSE)>>]]
                      /\ tg_trace' = tg_trace
                 [] f.at = "reply_text" /\ ok ->
                      HandlerEnds(i, Append(f.trace, ReplyText(f.response, TRUE)))
                 [] f.at = "reply_text" /\ ~ok ->
                      tg_calls' = [tg_calls EXCEPT ![i] =
                                      [f EXCEPT !.at = "error_reply",
                                                !.trace = Append(f.trace,
                                                                 ReplyText(f.response, FALSE))]]
                      /\ tg_trace' = tg_trace
                 [] f.at = "error_reply" /\ ok ->
                      HandlerEnds(i, Append(f.trace, ReplyText(ErrorReply(TimedOut), TRUE)))
                 [] f.at = "error_reply" /\ ~ok ->
                      HandlerEnds(i, f.trace \o <<ReplyText(ErrorReply(TimedOut), FALSE),
                                                  HandlerRaised(TimedOut)>>)
            /\ UNCHANGED <<agent, action_manager, task_manager, telegram, is_running,
                           session_data, session_history, hm_log, hm_ret>>
            /\ UNCHANGED <<clock, actionVars, taskVars, lifeVars>>
    /\ UNCHANGED <<agent_ret, web_events, web_ret, app, app_ret, hm_calls>>


----------------------------------------------------------------------------
(* The standalone bot (integrations/telegram/bot.py), which talks to a      *)
(* BaseAgent of its own without an orchestrator.                            *)

\* the fixed reply of the except branch
BotApology == <<"I apologize, but I encountered an error processing your message.">>

\* response.content, where response is what process_message returned: a
\* str, which has no such attribute
ContentOf(response) == Raised("'str' object has no attribute 'content'")

\* a handler call of the bot suspended on the reply_text named by at.
\* response: what process_message returned; text: what is being sent;
\* trace: the calls it has made that have ended
BotFrame(message, response, at, text) ==
    [message |-> message, response |-> response, at |-> at, text |-> text,
     trace |-> << >>]

\* TelegramBot.handle_message(update, context) up to its first reply_text.
\* run: what the framework's agent.run does.  The agent processes the
\* message and the exchange is in the transcript; reading .content of the
\* answer raises, so the reply the handler awaits is the one of the except
\* branch.
BotHandleMessage(message, run) ==
    /\ agent # None
    /\ Len(session_history) < 2 * MaxMessages
    /\ Len(tg_calls) < MaxInflight
    /\ LET r == ProcessMessage(session_history, message, run)
           content == ContentOf(r.value)
       IN
       /\ session_history' = r.history
       /\ tg_calls' =
             Append(tg_calls,
                    IF content.kind = "return"
                    THEN BotFrame(message, r.value, "reply_text", content.value)
                    ELSE BotFrame(message, r.value, "error_reply", BotApology))
    /\ UNCHANGED <<agent, action_manager, task_manager, telegram, is_running,
                   session_data, hm_log, hm_ret>>
    /\ UNCHANGED <<clock, actionVars, taskVars, lifeVars>>
    /\ UNCHANGED <<agent_ret, tg_trace, web_events, web_ret, app, app_ret, hm_calls>>

\* the i-th suspended handler call of the bot resumes: its reply_text has
\* returned (ok) or raised.  A reply_text that raises inside the try block
\* leads to the reply of the except branch; one that raises there leaves
\* the handler.
BotResume(i, ok) ==
    /\ i \in 1..Len(tg_calls)
    /\ LET f == tg_calls[i] IN
       CASE f.at = "reply_text" /\ ok ->
               HandlerEnds(i, Append(f.trace, ReplyText(f.text, TRUE)))
         [] f.at = "reply_text" /\ ~ok ->
               tg_calls' = [tg_calls EXCEPT ![i] =
                               [f EXCEPT !.at = "error_reply",
                                         !.text = BotApology,
                                         !.trace = Append(f.trace,
                                                          ReplyText(f.text, FALSE))]]
               /\ tg_trace' = tg_trace
         [] f.at = "error_reply" /\ ok ->
               HandlerEnds(i, Append(f.trace, ReplyText(BotApology, TRUE)))
         [] f.at = "error_reply" /\ ~ok ->
               HandlerEnds(i, f.trace \o <<ReplyText(BotApology, FALSE),
                                           HandlerRaised(TimedOut)>>)
    /\ UNCHANGED <<agent, action_manager, task_manager, telegram, is_running,
                   session_data, session_history, hm_log, hm_ret>>
    /\ UNCHANGED <<clock, actionVars, taskVars, lifeVars>>
    /\ UNCHANGED <<agent_ret, web_events, web_ret, app, app_ret, hm_calls>>


----------------------------------------------------------------------------
(* The entry point (src/src/main.py): the Application object that creates   *)
(* and starts the orchestrator.  env is the process environment after       *)
(* load_dotenv: model_name is None or Some(name); openai_api_key and        *)
(* telegram_bot_token tell whether the value is set and not empty.          *)

\* _validate_environment: the required variables that are missing
MissingVarsNone(env) == << >>
MissingVars(env) ==
    (IF env.telegram_bot_token THEN << >> ELSE <<"TELEGRAM_BOT_TOKEN">>)
    \o (IF env.openai_api_key THEN << >> ELSE <<"OPENAI_API_KEY">>)

\* the configuration start() hands to the orchestrator
Config(env) ==
    [model_name |-> IF env.model_name = None THEN "gpt-4o" ELSE env.model_name[1],
     telegram_token |-> env.telegram_bot_token,
     openai_api_key |-> env.openai_api_key]

appFrame == <<agent_ret, tg_trace, tg_calls, web_events, web_ret, hm_calls>>

\* app = Application() at import of the entry point
AppConstruct(env) ==
    /\ app = None
    /\ IF MissingVars(env) # << >>
       THEN /\ app' = None
            /\ app_ret' = [op |-> "Application", env |-> env, raised |-> TRUE,
                           e |-> <<"Missing required environment variables: ",
                                   MissingVars(env)>>]
       ELSE /\ app' = Some([env |-> env, orchestrator |-> None, running |-> FALSE])
            /\ app_ret' = [op |-> "Application", env |-> env, raised |-> FALSE]
    /\ UNCHANGED <<clock, actionVars, taskVars, lifeVars, appFrame>>
    /\ UNCHANGED <<agent, action_manager, task_manager, telegram, is_running,
                   session_data, session_history, hm_log, hm_ret>>

\* Application.start(), up to the await inside orchestrator.start(): the
\* orchestrator is created and started
AppStart ==
    /\ app # None
    /\ app[1].orchestrator = None
    /\ StartCall(app[1].env)
    /\ app' = Some([app[1] EXCEPT !.orchestrator = Some(Config(app[1].env))])
    /\ app_ret' = [op |-> "start", raised |-> life_ret'.raised]
    /\ UNCHANGED appFrame

\* orchestrator.start() returns into Application.start(): running is set and
\* the application keeps alive; or it raises, and main() stops the application
AppStartResume(i, ok) ==
    /\ app # None
    /\ app[1].orchestrator # None
    /\ i \in 1..Len(starts)
    /\ starts[i].by = "orchestrator"
    /\ StartResumeCall(i, ok)
    /\ app' = Some([app[1] EXCEPT !.running = ok])
    /\ app_ret' = [op |-> "start", raised |-> ~ok]
    /\ UNCHANGED appFrame

\* Application.stop(), up to the await inside orchestrator.stop()
AppStop ==
    /\ app # None
    /\ IF ~app[1].running
       THEN /\ app_ret' = [op |-> "stop", acted |-> FALSE]
            /\ UNCHANGED <<app, clock, actionVars, taskVars, lifeVars>>
            /\ UNCHANGED <<agent, action_manager, task_manager, telegram, is_running,
                           session_data, session_history, hm_log, hm_ret>>
       ELSE /\ app' = Some([app[1] EXCEPT !.running = FALSE])
            /\ StopCall
            /\ app_ret' = IF Len(stops') > Len(stops)
                          THEN [op |-> "stop", acted |-> TRUE, suspended |-> TRUE]
                          ELSE [op |-> "stop", acted |-> TRUE]
    /\ UNCHANGED appFrame

\* orchestrator.stop() returns into Application.stop(), which returns
AppStopResume(i, ok) ==
    /\ app # None
    /\ i \in 1..Len(stops)
    /\ stops[i].by = "orchestrator"
    /\ StopResumeCall(i, ok)
    /\ app' = app
    /\ app_ret' = [op |-> "stop", acted |-> TRUE]
    /\ UNCHANGED appFrame


----------------------------------------------------------------------------
(* The web application (src/main.py). *)

webFrame ==
    <<clock, actionVars, taskVars, lifeVars, agent, action_manager, task_manager,
      telegram, is_running, session_data, session_history, hm_log, hm_ret,
      agent_ret, tg_trace, tg_calls, app, app_ret, hm_calls>>

\* startup_event and shutdown_event only log
WebStartup ==
    /\ web_events = << >>
    /\ web_events' = <<"startup">>
    /\ UNCHANGED <<web_ret, webFrame>>
WebShutdown ==
    /\ web_events = <<"startup">>
    /\ web_events' = <<"startup", "shutdown">>
    /\ UNCHANGED <<web_ret, webFrame>>

\* the body health_check returns
HealthBodyByEvents == [status |-> IF web_events = <<"startup">> THEN "healthy" ELSE "starting"]
HealthBody == [status |-> "healthy"]

\* the routes of the application: GET /health only
Respond(method, path) ==
    IF path # "/health" THEN [status_code |-> 404, body |-> [detail |-> "Not Found"]]
    ELSE IF method # "GET"
    THEN [status_code |-> 405, body |-> [detail |-> "Method Not Allowed"]]
    ELSE [status_code |-> 200, body |-> HealthBody]

\* one HTTP request served by the application
WebRequest(method, path) ==
    /\ web_ret' = [op |-> "request", method |-> method, path |-> path,
                   response |-> Respond(method, path)]
    /\ UNCHANGED <<web_events, webFrame>>


----------------------------------------------------------------------------
(* Initial state: the state after construction. *)

InitActions ==
    /\ held_actions = {}
    /\ action_objs = RegisterDefaultActions(0).heap
    /\ actions = RegisterDefaultActions(0).dict
    /\ session = None
    /\ clients = << >>
    /\ action_calls = << >>
    /\ action_ret = [op |-> "init"]

InitTasks ==
    /\ held_tasks = {}
    /\ task_objs = << >>
    /\ tasks = << >>
    /\ tm_running = FALSE
    /\ task_ret = [op |-> "init"]

InitOrch ==
    /\ agent = None
    /\ action_manager = None
    /\ task_manager = None
    /\ telegram = None
    /\ is_running = FALSE
    /\ session_data = << >>
    /\ session_history = << >>
    /\ hm_log = << >>
    /\ hm_ret = [op |-> "init"]
    /\ listeners = << >>
    /\ starts = << >>
    /\ stops = << >>
    /\ life_ret = [op |-> "init"]

InitFront ==
    /\ agent_ret = [op |-> "init"]
    /\ tg_trace = << >>
    /\ tg_calls = << >>
    /\ web_events = << >>
    /\ web_ret = [op |-> "init"]
    /\ app = None
    /\ app_ret = [op |-> "init"]
    /\ hm_calls = << >>

Init == clock = 0 /\ InitActions /\ InitTasks /\ InitOrch /\ InitFront

----------------------------------------------------------------------------
(* The registries under small sets of inputs.  The caller constructs the    *)
(* object it registers in the call and keeps no reference to one it removes. *)

ActionCtorInputs ==
    {[cls |-> "TimeAction"],
     [cls |-> "Action", action_id |-> "custom", enabled |-> TRUE],
     [cls |-> "Action", action_id |-> "custom", enabled |-> FALSE]}
ActionIdInputs == {"time", "custom", "does_not_exist"}
ParamInputs == {None, Some([query |-> "kaspa"])}
EnvInputs == {[psutil |-> TRUE, info |-> [platform |-> "Linux"]],
              [psutil |-> FALSE, info |-> EmptyDict]}
OutcomeInputs == {[ok |-> TRUE, data |-> [Abstract |-> "a coin"]],
                  [ok |-> FALSE, e |-> "timeout"]}

ActionsNext ==
    \/ \E ctor \in ActionCtorInputs : RegisterAction(ctor)
    \/ \E id \in ActionIdInputs : UnregisterAction(id, FALSE)
    \/ \E id \in ActionIdInputs, b \in BOOLEAN : SetActionEnabled(id, b)
    \/ \E id \in ActionIdInputs, p \in ParamInputs, env \in EnvInputs :
          Execute(id, p, env)

TaskCtorInputs ==
    {[cls |-> "HealthCheckTask"],
     [cls |-> "Task", task_id |-> "report", enabled |-> TRUE],
     [cls |-> "Task", task_id |-> "report", enabled |-> FALSE]}
TaskIdInputs == {"health_check", "report"}

TasksNext ==
    \/ \E ctor \in TaskCtorInputs : AddTask(ctor)
    \/ \E id \in TaskIdInputs : RemoveTask(id, FALSE)
    \/ \E id \in TaskIdInputs : ExecuteTask(id)
    \/ \E id \in TaskIdInputs : EnableTask(id)
    \/ \E id \in TaskIdInputs : DisableTask(id)

\* The two registries share no state: an operation of one neither reads nor
\* writes the other's variables, so a behaviour that uses both is an
\* interleaving of a behaviour of each.  The specification therefore follows
\* a caller that works on one registry, the other left as constructed.
ActionsUntouched == InitActions
TasksUntouched == InitTasks

Next ==
    \/ Tick
    \/ TasksUntouched /\ ActionsNext
    \/ ActionsUntouched /\ TasksNext

Spec == Init /\ [][Next]_vars


----------------------------------------------------------------------------
(* The registries with a caller that keeps the objects it removes and       *)
(* registers them again, as they are: counts, flags and timestamps are the  *)
(* object's.  The clock stands still.                                       *)

HeldNext ==
    \/ /\ TasksUntouched
       /\ \/ ActionsNext
          \/ \E id \in ActionIdInputs : UnregisterAction(id, TRUE)
          \/ \E ref \in held_actions : RegisterAction([held |-> ref])
    \/ /\ ActionsUntouched
       /\ \/ TasksNext
          \/ \E id \in TaskIdInputs : RemoveTask(id, TRUE)
          \/ \E ref \in held_tasks : AddTask([held |-> ref])

SpecHeld == Init /\ [][HeldNext]_vars


----------------------------------------------------------------------------
(* Executions of the registered actions, the networked ones included: calls  *)
(* are suspended on their outbound call and other calls run meanwhile.       *)

ExecIdInputs == {"time", "web_search", "system_info"}

ExecNext ==
    \/ Tick
    \/ /\ TasksUntouched
       /\ \/ \E b \in BOOLEAN : SetActionEnabled("web_search", b)
          \/ \E id \in ExecIdInputs, p \in ParamInputs, env \in EnvInputs :
                Execute(id, p, env)
          \/ \E i \in 1..MaxInflight, o \in OutcomeInputs : Complete(i, o)
    \/ ActionsUntouched /\ TasksNext

SpecExec == Init /\ [][ExecNext]_vars


----------------------------------------------------------------------------
(* The registry's outbound client: created by execute when the registry     *)
(* holds none, and by entering the registry's async context.                *)

ClientIdInputs == {"time", "web_search", "weather", "does_not_exist"}
ClientParamInputs == {Some([query |-> "kaspa", location |-> "Oslo"])}

ClientNext ==
    \/ \E b \in BOOLEAN : SetActionEnabled("web_search", b)
    \/ \E id \in ClientIdInputs, p \in ClientParamInputs, env \in EnvInputs :
          Execute(id, p, env)
    \/ \E i \in 1..MaxInflight, o \in OutcomeInputs : Complete(i, o)
    \/ AEnter
    \/ AExit

SpecClient == Init /\ [][ClientNext]_vars


----------------------------------------------------------------------------
(* The three networked actions through the registry, with parameters        *)
(* missing, empty and present, and outbound calls that succeed and fail.    *)

HttpIdInputs == {"web_search", "http_request", "weather"}

\* the required parameter of each networked action
Required(action_id) ==
    CASE action_id = "web_search" -> "query"
      [] action_id = "http_request" -> "url"
      [] action_id = "weather" -> "location"

HttpParamInputs ==
    {None,
     Some(EmptyDict),
     Some([query |-> "", url |-> "", location |-> ""]),
     Some([headers |-> EmptyDict]),
     Some([method |-> IntValue(5)]),
     Some([url |-> "http://example.org", method |-> IntValue(5)]),
     Some([url |-> "http://example.org", method |-> StrValue("post")]),
     Some([query |-> "kaspa", url |-> "http://example.org", location |-> "Oslo"])}

\* what the provider of each action may answer, and the failure of the call
\* or of the read of its body
OutcomesFor(cls) ==
    {[ok |-> FALSE, e |-> "timeout"]} \cup
    CASE cls = "WebSearchAction" ->
            {[ok |-> TRUE, data |-> [Abstract |-> "a coin"]]}
      [] cls = "HttpRequestAction" ->
            {[ok |-> TRUE, data |-> [status |-> 200, headers |-> EmptyDict,
                                     text |-> <<"o", "k">>]]}
      [] cls = "WeatherAction" ->
            {[ok |-> TRUE, data |-> [current_condition |-> << >>]],
             [ok |-> TRUE, data |-> [current_condition |->
                                        <<[temp_C |-> "4",
                                           weatherDesc |-> <<[value |-> "Snow"]>>]>>]]}
      [] OTHER -> {}

HttpOutcomeInputs ==
    UNION {OutcomesFor(cls) :
              cls \in {"WebSearchAction", "HttpRequestAction", "WeatherAction"}}

HttpNext ==
    \/ \E id \in HttpIdInputs, p \in HttpParamInputs, env \in EnvInputs :
          Execute(id, p, env)
    \/ \E i \in 1..MaxInflight, o \in HttpOutcomeInputs :
          /\ i \in 1..Len(action_calls)
          /\ o \in OutcomesFor(action_objs[action_calls[i].ref].cls)
          /\ Complete(i, o)

SpecHttp == Init /\ [][HttpNext]_vars


----------------------------------------------------------------------------
(* The orchestrator's message handling under a small set of inputs. *)

\* ids as the strings the caller passes: any characters, "_" among them
UserIdInputs == {<<"7">>, <<"7", "_", "8">>}
ChatIdInputs == {<<"9">>, <<"8", "_", "9">>}
\* the (user_id, chat_id) pairs that send messages
PairInputs == (UserIdInputs \X ChatIdInputs) \ {<<(<<"7", "_", "8">>), (<<"8", "_", "9">>)>>}
MessageInputs == {"hi"}
RunInputs ==
    {[raised |-> FALSE, response |-> [content |-> "hello", str |-> "RunResponse"]],
     [raised |-> FALSE, response |-> [content |-> "", text |-> "hey", str |-> "RunResponse"]],
     [raised |-> FALSE, response |-> [content |-> Unprintable, str |-> "RunResponse"]],
     [raised |-> TRUE, e |-> "rate limit"]}
InitEnvInputs ==
    {[openai_api_key |-> TRUE, telegram_bot_token |-> TRUE],
     [openai_api_key |-> TRUE, telegram_bot_token |-> FALSE],
     [openai_api_key |-> FALSE, telegram_bot_token |-> TRUE]}

OrchNext ==
    \/ \E env \in InitEnvInputs : Initialize(env)
    \/ \E m \in MessageInputs, pair \in PairInputs, run \in RunInputs :
          HandleMessage(m, pair[1], pair[2], run)

SpecOrch == Init /\ [][OrchNext]_vars


----------------------------------------------------------------------------
(* The lifecycle: initialize, start and stop of the orchestrator and of its
   listener and task registry. *)

StartOutcomeInputs == BOOLEAN
LifeNext ==
    \/ \E env \in InitEnvInputs : Initialize(env)
    \/ \E env \in InitEnvInputs : Start(env)
    \/ \E i \in 1..MaxInflight, ok \in StartOutcomeInputs : StartResume(i, ok)
    \/ Stop
    \/ \E i \in 1..MaxInflight, ok \in BOOLEAN : StopResume(i, ok)
    \/ TelegramStart
    \/ TelegramStop
    \/ TaskManagerStart
    \/ TaskManagerStop

SpecLife == Init /\ [][LifeNext]_vars

----------------------------------------------------------------------------
(* The outbound client over the orchestrator's life: actions executed
   through the orchestrator between initialize, start and stop. *)

FullEnv == [openai_api_key |-> TRUE, telegram_bot_token |-> TRUE]
ReleaseNext ==
    \/ Initialize(FullEnv)
    \/ Start(FullEnv)
    \/ \E i \in 1..MaxInflight, ok \in StartOutcomeInputs : StartResume(i, ok)
    \/ Stop
    \/ \E i \in 1..MaxInflight, ok \in BOOLEAN : StopResume(i, ok)
    \/ \E id \in {"time", "does_not_exist"}, env \in EnvInputs :
          ExecuteAction(id, None, env)

SpecRelease == Init /\ [][ReleaseNext]_vars

----------------------------------------------------------------------------
(* The agent wrapper behind the orchestrator, and the web application's     *)
(* health endpoint beside it.                                               *)

PromptInputs == {"plan"}
MethodInputs == {"GET", "POST"}
PathInputs == {"/health", "/"}

\* the operations of the agent wrapper
AgentOps ==
    \/ \E m \in MessageInputs, run \in RunInputs : AgentProcessMessage(m, run)
    \/ \E q \in PromptInputs, run \in RunInputs : Think(q, run)
    \/ \E q \in PromptInputs, run \in RunInputs : Analyze(q, run)
    \/ GetSessionHistory
    \/ ClearSessionHistory
    \/ \E has \in BOOLEAN : GetModelInfo(has)

AgentNext ==
    \/ Initialize(FullEnv)
    \/ AgentOps
    \/ WebStartup
    \/ WebShutdown
    \/ \E method \in MethodInputs, path \in PathInputs : WebRequest(method, path)

SpecAgent == Init /\ [][AgentNext]_vars


----------------------------------------------------------------------------
(* Free-text messages arriving at the listener. *)

TgUserInputs == {7}
\* a group chat: its id is negative
TgChatInputs == {0 - 1009}
\* the agent answers, or its run fails
TgRunInputs ==
    {[raised |-> FALSE, response |-> [content |-> "hello", str |-> "RunResponse"]],
     [raised |-> TRUE, e |-> "rate limit"]}

\* the orchestrator is initialized once; handler calls arrive before and
\* after, and resume in any order
ListenerNext ==
    \/ telegram = None /\ Initialize(FullEnv)
    \/ \E orch \in BOOLEAN, m \in MessageInputs, user \in TgUserInputs,
          chat \in TgChatInputs :
          ListenerHandleMessage(orch, m, user, chat)
    \/ \E i \in 1..MaxInflight, run \in TgRunInputs, ok \in BOOLEAN :
          ListenerResume(i, run, ok)

SpecListener == Init /\ [][ListenerNext]_vars


----------------------------------------------------------------------------
(* Text messages arriving at the standalone bot. *)

BotMessageInputs == {"hi", "price of kaspa?"}
BotNext ==
    \/ Initialize(FullEnv)
    \/ \E m \in BotMessageInputs, run \in RunInputs : BotHandleMessage(m, run)
    \/ \E i \in 1..MaxInflight, ok \in BOOLEAN : BotResume(i, ok)

SpecBot == Init /\ [][BotNext]_vars


----------------------------------------------------------------------------
(* Startup of the entry point under every environment. *)

AppEnvInputs ==
    [model_name : {None, Some("gpt-4o-mini")},
     openai_api_key : BOOLEAN, telegram_bot_token : BOOLEAN]

\* messages reach the handler while the listener runs
AppMessage ==
    /\ telegram # None
    /\ listeners[telegram[1]].is_running
    /\ ListenerHandleMessage(TRUE, "hi", 7, 8)

\* the Bot API call a handler awaits returns
AppMessageResume(i, run) == ListenerResume(i, run, TRUE)

AppNext ==
    \/ \E env \in AppEnvInputs : AppConstruct(env)
    \/ AppStart
    \/ \E i \in 1..MaxInflight, ok \in BOOLEAN : AppStartResume(i, ok)
    \/ AppStop
    \/ \E i \in 1..MaxInflight, ok \in BOOLEAN : AppStopResume(i, ok)
    \/ AppMessage
    \/ \E i \in 1..MaxInflight, run \in TgRunInputs : AppMessageResume(i, run)
    \/ \E has \in BOOLEAN : GetModelInfo(has)

SpecApp == Init /\ [][AppNext]_vars


----------------------------------------------------------------------------
(* handle_message calls in flight together, interleaved at the awaited      *)
(* agent call.  The orchestrator is not re-initialized while a call is      *)
(* suspended.                                                               *)

ConcRunInputs ==
    {[raised |-> FALSE, response |-> [content |-> "hello", str |-> "RunResponse"]],
     [raised |-> TRUE, e |-> "rate limit"]}

ConcNext ==
    \/ hm_calls = << >> /\ Initialize(FullEnv)
    \/ \E m \in MessageInputs, pair \in PairInputs :
          HandleMessageBegin(m, pair[1], pair[2])
    \/ \E i \in 1..MaxInflight, run \in ConcRunInputs : HandleMessageEnd(i, run)

SpecConc == Init /\ [][ConcNext]_vars


----------------------------------------------------------------------------
(* Framework responses of every shape handed to _extract_response: each of  *)
(* the four fields absent, empty, a text, or a value whose conversion       *)
(* raises, and str() of the whole object a text or raising.                 *)

FieldValueInputs == {"", "a", "b", Unprintable}
ResponseInputs ==
    UNION {{r \in [S \cup {"str"} -> FieldValueInputs] : r["str"] \in {"b", Unprintable}} :
              S \in SUBSET {"content", "response", "message", "text"}}

ExtractNext ==
    \/ Initialize(FullEnv)
    \/ \E r \in ResponseInputs : ExtractResponseCall(r)

SpecExtract == Init /\ [][ExtractNext]_vars


----------------------------------------------------------------------------
(* Claims. *)

\* the fields of the registered entry with this id
ActionOf(id) == action_objs[DictGet(actions, id)]
TaskOf(id) == task_objs[DictGet(tasks, id)]

\* C1: in both registries, registering an entry whose id is present returns
\* false and leaves the registry (the entry, its enabled flag, its counters,
\* the list output) unchanged; registering an entry with a new id returns
\* true and the id is in the list output afterwards.
C1_RegisterContract ==
    [][/\ \A ctor \in ActionCtorInputs :
            RegisterAction(ctor) =>
                LET id == MakeAction(ctor, clock).action_id IN
                IF DictHas(actions, id)
                THEN /\ action_ret'.value = FALSE
                     /\ actions' = actions
                     /\ action_objs' = action_objs
                     /\ ListActions' = ListActions
                ELSE /\ action_ret'.value = TRUE
                     /\ id \in ListedIds(ListActions')
                     /\ id \notin ListedIds(ListActions)
       /\ \A ctor \in TaskCtorInputs :
            AddTask(ctor) =>
                LET id == MakeTask(ctor, clock).task_id IN
                IF DictHas(tasks, id)
                THEN /\ task_ret'.value = FALSE
                     /\ tasks' = tasks
                     /\ task_objs' = task_objs
                     /\ ListTasks' = ListTasks
                ELSE /\ task_ret'.value = TRUE
                     /\ id \in ListedTaskIds(ListTasks')
                     /\ id \notin ListedTaskIds(ListTasks)
      ]_vars

\* a duplicate registration was just rejected, the entry in place having run
\* before and keeping its counter
C1_Witness ==
    /\ action_ret.op = "register_action"
    /\ action_ret.value = FALSE
    /\ action_ret.action_id = "time"
    /\ ActionOf("time").execution_count = 2

\* the same for the task registry, and a new id accepted
C1_WitnessTasks ==
    /\ task_ret.op = "add_task"
    /\ task_ret.value = FALSE
    /\ TaskOf(task_ret.task_id).run_count = 2
C1_WitnessNew ==
    /\ action_ret.op = "register_action"
    /\ action_ret.value = TRUE
    /\ action_ret.action_id = "custom"
    /\ "custom" \in ListedIds(ListActions)

\* C2: in both registries, removing an absent id returns false and changes
\* nothing; removing a present id returns true, removes exactly that entry,
\* the id is no longer listed and every other entry is unchanged.
C2_UnregisterContract ==
    [][/\ \A id \in ActionIdInputs :
            (\E keep \in BOOLEAN : UnregisterAction(id, keep)) =>
                IF ~DictHas(actions, id)
                THEN /\ action_ret'.value = FALSE
                     /\ actions' = actions
                     /\ action_objs' = action_objs
                     /\ ListActions' = ListActions
                ELSE /\ action_ret'.value = TRUE
                     /\ id \notin ListedIds(ListActions')
                     /\ ListActions' = SelectSeq(ListActions, LAMBDA e : e.action_id # id)
                     /\ Len(ListActions') = Len(ListActions) - 1
       /\ \A id \in TaskIdInputs :
            (\E keep \in BOOLEAN : RemoveTask(id, keep)) =>
                IF ~DictHas(tasks, id)
                THEN /\ task_ret'.value = FALSE
                     /\ tasks' = tasks
                     /\ task_objs' = task_objs
                     /\ ListTasks' = ListTasks
                ELSE /\ task_ret'.value = TRUE
                     /\ id \notin ListedTaskIds(ListTasks')
                     /\ ListTasks' = SelectSeq(ListTasks, LAMBDA e : e.task_id # id)
                     /\ Len(ListTasks') = Len(ListTasks) - 1
      ]_vars

\* an entry that had run was just removed, the others still listed
C2_Witness ==
    /\ action_ret.op = "unregister_action"
    /\ action_ret.value = TRUE
    /\ action_ret.action_id = "time"
    /\ action_ret.popped[1].execution_count > 0
    /\ "time" \notin ListedIds(ListActions)
    /\ {"web_search", "custom"} \subseteq ListedIds(ListActions)

\* the same for the task registry, and the removal of an absent id
C2_WitnessTasks ==
    /\ task_ret.op = "remove_task"
    /\ task_ret.value = TRUE
    /\ task_ret.task_id = "health_check"
    /\ ListedTaskIds(ListTasks) = {"report"}
C2_WitnessAbsent ==
    /\ action_ret.op = "unregister_action"
    /\ action_ret.value = FALSE
    /\ action_ret.action_id = "does_not_exist"

\* C3: ActionManager.execute with an id that is not registered returns (it
\* does not raise) a result with status "error", the requested action_id and
\* an error text containing that id and "not found"; the registry is untouched.
C3_UnknownActionError ==
    [][\A id \in ActionIdInputs, p \in ParamInputs, env \in EnvInputs :
          (~DictHas(actions, id) /\ Execute(id, p, env)) =>
              /\ action_ret'.op = "execute"
              /\ action_ret'.value.status = "error"
              /\ action_ret'.value.action_id = id
              /\ InSeq(id, action_ret'.value.error)
              /\ InSeq(" not found", action_ret'.value.error)
              /\ DOMAIN action_ret'.value = {"action_id", "status", "error"}
              /\ UNCHANGED <<action_objs, actions, session, clients, action_calls>>
      ]_vars

\* "does_not_exist" was just executed and answered with the error result
C3_Witness ==
    /\ action_ret.op = "execute"
    /\ action_ret.action_id = "does_not_exist"
    /\ action_ret.value.status = "error"
    /\ action_ret.value.error = <<"Action ", "does_not_exist", " not found">>


\* C4 as stated: in both registries, executing a registered but disabled
\* entry returns a structured error result and does not run the entry.
C4_DisabledStructuredError ==
    [][/\ \A id \in ActionIdInputs, p \in ParamInputs, env \in EnvInputs :
            (DictHas(actions, id) /\ ~ActionOf(id).enabled /\ Execute(id, p, env)) =>
                /\ action_ret'.value.status = "error"
                /\ action_objs' = action_objs
       /\ \A id \in TaskIdInputs :
            (DictHas(tasks, id) /\ ~TaskOf(id).enabled /\ ExecuteTask(id)) =>
                /\ task_ret'.value # None
                /\ task_ret'.value[1].status = "error"
                /\ task_objs' = task_objs
      ]_vars

\* What the registries do with a disabled entry: neither runs it; the
\* action registry returns the error result "Action <id> is disabled" as
\* stated, the task registry returns None, no result at all.  Setting the
\* entry enabled again lets the next execute run it and return its normal
\* result.
C4_DisabledRejected ==
    [][/\ \A id \in ActionIdInputs, p \in ParamInputs, env \in EnvInputs :
            (DictHas(actions, id) /\ Execute(id, p, env)) =>
                IF ~ActionOf(id).enabled
                THEN /\ action_ret'.value.status = "error"
                     /\ action_ret'.value.action_id = id
                     /\ action_ret'.value.error = <<"Action ", id, " is disabled">>
                     /\ action_ret'.ran = None
                     /\ action_objs' = action_objs
                ELSE /\ action_ret'.ran = Some(DictGet(actions, id))
                     /\ ActionOf(id)'.execution_count = ActionOf(id).execution_count + 1
                     /\ id \in {"time", "custom"} =>
                            action_ret'.value.status = "completed"
       /\ \A id \in ActionIdInputs :
            SetActionEnabled(id, TRUE) => ActionOf(id)'.enabled
       /\ \A id \in TaskIdInputs :
            (DictHas(tasks, id) /\ ExecuteTask(id)) =>
                IF ~TaskOf(id).enabled
                THEN /\ task_ret'.value = None
                     /\ task_ret'.ran = None
                     /\ task_objs' = task_objs
                ELSE /\ task_ret'.ran = Some(DictGet(tasks, id))
                     /\ task_ret'.value # None
                     /\ task_ret'.value[1].status = "completed"
                     /\ TaskOf(id)'.run_count = TaskOf(id).run_count + 1
       /\ \A id \in TaskIdInputs :
            (DictHas(tasks, id) /\ EnableTask(id)) => TaskOf(id)'.enabled
      ]_vars

\* a disabled action that ran before was just executed and rejected
C4_ActionRejected ==
    /\ action_ret.op = "execute"
    /\ DictHas(actions, action_ret.action_id)
    /\ ~ActionOf(action_ret.action_id).enabled
    /\ action_ret.value = DisabledResult(action_ret.action_id)
    /\ ActionOf(action_ret.action_id).execution_count = 1

\* a task registered disabled was just executed: None where the structured
\* error is required, the task not run
C4_NoneForDisabledTask ==
    /\ task_ret.op = "execute_task"
    /\ task_ret.task_id = "report"
    /\ DictHas(tasks, "report")
    /\ ~TaskOf("report").enabled
    /\ task_ret.value = None
    /\ TaskOf("report").run_count = 0

\* an action registered disabled (it never ran while disabled) has run after
\* being enabled
C4_WitnessReenabled ==
    /\ action_ret.op = "execute"
    /\ action_ret.action_id = "custom"
    /\ action_ret.value.status = "completed"
    /\ ActionOf("custom").execution_count = 1
    /\ ActionOf("custom").created_at = 0
    /\ clock = 0

\* C5 as stated: the enabled flag of a task does not gate manual execution:
\* execute_task on a present, disabled task runs it, adds one to its run
\* count and returns a completed result.
C5_DisabledTaskStillRuns ==
    [][\A id \in TaskIdInputs :
          (DictHas(tasks, id) /\ ~TaskOf(id).enabled /\ ExecuteTask(id)) =>
              /\ task_ret'.value # None
              /\ task_ret'.value[1].status = "completed"
              /\ TaskOf(id)'.run_count = TaskOf(id).run_count + 1
      ]_vars

\* C5 (amended): the enabled flag gates manual execution as well:
\* disable_task on a present task clears the flag, and execute_task runs a
\* present task exactly when its flag is set; on a disabled task it returns
\* None and leaves run_count, last_run and status as they were.
C5_EnabledGatesManualExecute ==
    [][\A id \in TaskIdInputs :
          /\ (DictHas(tasks, id) /\ DisableTask(id)) =>
                /\ task_ret'.value = TRUE
                /\ ~TaskOf(id)'.enabled
          /\ (DictHas(tasks, id) /\ ExecuteTask(id)) =>
                /\ (task_ret'.ran # None) <=> TaskOf(id).enabled
                /\ (task_ret'.value # None) <=> TaskOf(id).enabled
                /\ ~TaskOf(id).enabled =>
                      /\ TaskOf(id)'.run_count = TaskOf(id).run_count
                      /\ TaskOf(id)'.last_run = TaskOf(id).last_run
                      /\ TaskOf(id)'.status = TaskOf(id).status
      ]_vars

\* a task that ran once was disabled and then executed: None, count still 1
C5_Witness ==
    /\ task_ret.op = "execute_task"
    /\ task_ret.value = None
    /\ DictHas(tasks, task_ret.task_id)
    /\ ~TaskOf(task_ret.task_id).enabled
    /\ TaskOf(task_ret.task_id).run_count = 1

\* C6 as stated: execute_task with a task_id that is not registered returns
\* an error result naming the reason.
C6_UnknownTaskStructuredError ==
    [][\A id \in TaskIdInputs :
          (~DictHas(tasks, id) /\ ExecuteTask(id)) =>
              /\ task_ret'.value # None
              /\ task_ret'.value[1].status = "error"
      ]_vars

\* What execute_task does with a task_id that is not registered: it returns
\* None, no result at all, and changes nothing in the registry.
C6_UnknownTaskNone ==
    [][\A id \in TaskIdInputs :
          (~DictHas(tasks, id) /\ ExecuteTask(id)) =>
              /\ task_ret'.op = "execute_task"
              /\ task_ret'.task_id = id
              /\ task_ret'.value = None
              /\ task_ret'.ran = None
              /\ UNCHANGED <<task_objs, tasks, tm_running>>
      ]_vars

\* a task_id that is not registered was just executed: None where the
\* structured error is required
C6_NoneForUnknownTask ==
    /\ task_ret.op = "execute_task"
    /\ ~DictHas(tasks, task_ret.task_id)
    /\ task_ret.value = None
    /\ Len(tasks) > 0


\* C7: an execute call on a registered, enabled action adds exactly 1 to that
\* action's execution_count and sets its last_execution to the time of the
\* call, which is no earlier than the call's start; it changes no other
\* action, and the return of a suspended call changes no counter at all.  So
\* a call that returns "completed" has added exactly 1, and last_execution is
\* then no earlier than that call's start.
C7_ExecuteCountsOnce ==
    [][/\ \A id \in ExecIdInputs, p \in ParamInputs, env \in EnvInputs :
            (DictHas(actions, id) /\ ActionOf(id).enabled /\ Execute(id, p, env)) =>
                LET ref == DictGet(actions, id) IN
                /\ action_objs'[ref].execution_count = action_objs[ref].execution_count + 1
                /\ action_objs'[ref].last_execution = Some(clock)
                /\ \A r \in DOMAIN action_objs \ {ref} : action_objs'[r] = action_objs[r]
                /\ task_objs' = task_objs
                /\ action_ret' # action_ret =>
                      /\ action_ret'.ran = Some(ref)
                      /\ action_objs'[ref].last_execution[1] >= action_ret'.start
       /\ \A i \in 1..MaxInflight, o \in OutcomeInputs :
            Complete(i, o) =>
                LET call == action_calls[i] IN
                /\ \A r \in DOMAIN action_objs :
                      action_objs'[r].execution_count = action_objs[r].execution_count
                /\ action_ret'.start = call.start
                /\ action_objs'[call.ref].execution_count >= 1
                /\ action_objs'[call.ref].last_execution # None
                /\ action_objs'[call.ref].last_execution[1] >= call.start
                /\ action_ret'.value.status \in {"completed", "error"}
      ]_vars

\* a web search that started at time 0 has returned completed after a second
\* call on the same action started at time 1: two calls, a count of 2
C7_Witness ==
    /\ action_ret.op = "execute"
    /\ action_ret.action_id = "web_search"
    /\ action_ret.value.status = "completed"
    /\ action_ret.start = 0
    /\ ActionOf("web_search").execution_count = 2
    /\ ActionOf("web_search").last_execution = Some(1)
    /\ Len(action_calls) = 1

\* a synchronous subclass (TimeAction) has returned completed twice
C7_WitnessTime ==
    /\ action_ret.op = "execute"
    /\ action_ret.action_id = "time"
    /\ action_ret.value.status = "completed"
    /\ ActionOf("time").execution_count = 2
    /\ ActionOf("web_search").execution_count = 1

\* C8 as stated: over any sequence of register, unregister, enable, disable
\* and execute operations the count reported for an id never decreases and
\* is never reset: not in one operation, and not when the id is removed and
\* registered again.
C8_CountNeverReset ==
    [][/\ \A id \in ActionIdInputs :
            (DictHas(actions, id) /\ DictHas(actions', id)) =>
                ActionOf(id)'.execution_count >= ActionOf(id).execution_count
       /\ \A ctor \in ActionCtorInputs :
            (/\ action_ret.op = "unregister_action"
             /\ action_ret.value
             /\ action_ret.action_id = MakeAction(ctor, clock).action_id
             /\ RegisterAction(ctor)) =>
                ActionOf(action_ret.action_id)'.execution_count
                    >= action_ret.popped[1].execution_count
       /\ \A id \in TaskIdInputs :
            (DictHas(tasks, id) /\ DictHas(tasks', id)) =>
                TaskOf(id)'.run_count >= TaskOf(id).run_count
       /\ \A ctor \in TaskCtorInputs :
            (/\ task_ret.op = "remove_task"
             /\ task_ret.value
             /\ task_ret.task_id = MakeTask(ctor, clock).task_id
             /\ AddTask(ctor)) =>
                TaskOf(task_ret.task_id)'.run_count >= task_ret.popped[1].run_count
      ]_vars

\* C8 (amended): while an entry stays registered, no register, unregister,
\* enable, disable or execute operation decreases or resets its count: the
\* entry stays the same object and an operation adds 0 or 1 to its count.
C8_CountMonotoneWhileRegistered ==
    [][/\ \A id \in ActionIdInputs :
            (DictHas(actions, id) /\ DictHas(actions', id)) =>
                /\ DictGet(actions', id) = DictGet(actions, id)
                /\ ActionOf(id)'.execution_count >= ActionOf(id).execution_count
                /\ ActionOf(id)'.execution_count <= ActionOf(id).execution_count + 1
       /\ \A id \in TaskIdInputs :
            (DictHas(tasks, id) /\ DictHas(tasks', id)) =>
                /\ DictGet(tasks', id) = DictGet(tasks, id)
                /\ TaskOf(id)'.run_count >= TaskOf(id).run_count
                /\ TaskOf(id)'.run_count <= TaskOf(id).run_count + 1
      ]_vars

\* an action that ran twice was disabled and enabled again, its count kept
C8_Witness ==
    /\ action_ret.op = "set_enabled"
    /\ action_ret.action_id = "time"
    /\ action_ret.value = TRUE
    /\ ActionOf("time").execution_count = 2

\* an entry with a count of 2 was removed and its id registered again
C8_WitnessRemoved ==
    /\ action_ret.op = "unregister_action"
    /\ action_ret.value
    /\ action_ret.popped[1].execution_count = 2
C8_WitnessTaskRemoved ==
    /\ task_ret.op = "remove_task"
    /\ task_ret.value
    /\ task_ret.popped[1].run_count = 2

\* The count is the object's.  Registering an id that was absent reports the
\* count of the object passed: 0 for one constructed in the call, the count
\* it was removed with for one the caller kept.
HeldObjectKeepsCount ==
    [][/\ \A ctor \in ActionCtorInputs :
            (RegisterAction(ctor) /\ action_ret'.value) =>
                ActionOf(MakeAction(ctor, clock).action_id)'.execution_count = 0
       /\ \A ref \in held_actions :
            RegisterAction([held |-> ref]) =>
                /\ action_objs'[ref] = action_objs[ref]
                /\ action_ret'.value => DictGet(actions', action_objs[ref].action_id) = ref
       /\ \A ctor \in TaskCtorInputs :
            (AddTask(ctor) /\ task_ret'.value) =>
                TaskOf(MakeTask(ctor, clock).task_id)'.run_count = 0
       /\ \A ref \in held_tasks :
            AddTask([held |-> ref]) =>
                /\ task_objs'[ref] = task_objs[ref]
                /\ task_ret'.value => DictGet(tasks', task_objs[ref].task_id) = ref
      ]_vars

\* an action that ran was removed, kept by the caller and registered again:
\* its id is new to the registry and its count is not 0
C8_WitnessHeldAgain ==
    /\ action_ret.op = "register_action"
    /\ action_ret.value
    /\ action_ret.action_id = "time"
    /\ ActionOf("time").execution_count = 2
C8_WitnessTaskHeldAgain ==
    /\ task_ret.op = "add_task"
    /\ task_ret.value
    /\ TaskOf(task_ret.task_id).run_count = 2

\* a kept object was passed while its id was registered again by another
\* object: rejected, the caller still holds it
C8_WitnessHeldRejected ==
    /\ action_ret.op = "register_action"
    /\ ~action_ret.value
    /\ held_actions # {}
    /\ \E ref \in held_actions : action_objs[ref].action_id = action_ret.action_id


\* the session record of a pair, and whether handle_message made one
HasSession(user_id, chat_id) == DictHas(session_data, SessionKey(user_id, chat_id))

\* C9 as stated: after n handle_message calls for a (user_id, chat_id) pair
\* the pair has a session record, made at its first message, that carries the
\* pair's ids and whose message_count is n.
C9_SessionCountsPairMessages ==
    \A u \in UserIdInputs, c \in ChatIdInputs :
        Logged(hm_log, <<u, c>>) > 0 =>
            /\ HasSession(u, c)
            /\ GetSessionData(u, c).message_count = Logged(hm_log, <<u, c>>)
            /\ GetSessionData(u, c).user_id = u
            /\ GetSessionData(u, c).chat_id = c

\* what the code keeps instead: one record per key string, counting the
\* calls of every pair that formats to that key; created_at never changes
SessionCountsKeyMessages ==
    \A u \in UserIdInputs, c \in ChatIdInputs :
        Logged(hm_log, <<u, c>>) > 0 =>
            /\ HasSession(u, c)
            /\ LET same == {p \in UserIdInputs \X ChatIdInputs :
                               SessionKey(p[1], p[2]) = SessionKey(u, c)}
                   RECURSIVE Sum(_)
                   Sum(ps) == IF ps = {} THEN 0
                              ELSE LET p == CHOOSE q \in ps : TRUE
                                   IN Logged(hm_log, p) + Sum(ps \ {p})
               IN GetSessionData(u, c).message_count = Sum(same)
CreatedAtKept ==
    [][\A u \in UserIdInputs, c \in ChatIdInputs :
          HasSession(u, c) =>
              GetSessionData(u, c)'.created_at = GetSessionData(u, c).created_at]_vars

\* two pairs that format to one key have both sent a message
C9_CollisionReached ==
    /\ Logged(hm_log, <<(<<"7", "_", "8">>), (<<"9">>)>>) = 1
    /\ Logged(hm_log, <<(<<"7">>), (<<"8", "_", "9">>)>>) = 1
    /\ Len(session_data) = 1

\* C10 as stated: handle_message always returns a string, and whenever a
\* fault occurred in the processing path the string starts with the apology
\* prefix.
C10_FaultGivesApology ==
    hm_ret.op = "handle_message" =>
        /\ Len(hm_ret.value) > 0
        /\ hm_ret.fault # "none" => Head(hm_ret.value) = ApologyPrefix

\* C10 (amended): handle_message always returns a string.  When the agent is
\* missing or the framework's run raises, the string starts with the apology
\* prefix and carries the fault's text; when the fault occurs while the reply
\* text is extracted from the framework's response, the string is "I
\* generated a response but had trouble formatting it properly." instead.
C10_FaultGivesFixedReply ==
    hm_ret.op = "handle_message" =>
        /\ Len(hm_ret.value) > 0
        /\ hm_ret.fault \in {"none", "handle_message", "agent_run", "extract_response"}
        /\ hm_ret.fault \in {"handle_message", "agent_run"} =>
              /\ Head(hm_ret.value) = ApologyPrefix
              /\ Len(hm_ret.value) = 3
        /\ hm_ret.fault = "extract_response" => hm_ret.value = FormattingTrouble
        /\ hm_ret.fault = "none" =>
              /\ Head(hm_ret.value) # ApologyPrefix
              /\ hm_ret.value # FormattingTrouble

\* the framework's run raised and the caller got the apology
C10_Witness ==
    /\ hm_ret.op = "handle_message"
    /\ hm_ret.fault = "agent_run"
    /\ hm_ret.value = <<ApologyPrefix, ": ", "rate limit">>
    /\ agent # None

\* the other faults: no agent yet, and a reply that cannot be formatted
C10_WitnessNoAgent ==
    /\ hm_ret.op = "handle_message"
    /\ hm_ret.fault = "handle_message"
    /\ agent = None
C10_WitnessExtract ==
    /\ hm_ret.op = "handle_message"
    /\ hm_ret.fault = "extract_response"
    /\ hm_ret.value = FormattingTrouble


\* the state of the orchestrator and of its components
Components ==
    <<agent, action_manager, task_manager, telegram, is_running, session_data,
      session_history, listeners, starts, stops, tm_running, tasks, task_objs,
      actions, action_objs, session, clients>>

\* C11: Orchestrator.start() while the orchestrator is running returns at
\* once: no component is constructed, neither the listener nor the task
\* registry is started again, no state changes.  The same holds for
\* TaskManager.start() and TelegramListener.start() when already running.
C11_StartWhenRunningNoOp ==
    [][/\ \A env \in InitEnvInputs :
            (is_running /\ Start(env)) =>
                /\ UNCHANGED Components
                /\ life_ret' = LifeReturned("start", FALSE)
       /\ (tm_running /\ TaskManagerStart) =>
                /\ UNCHANGED Components
                /\ life_ret' = LifeReturned("task_manager.start", FALSE)
       /\ (telegram # None /\ listeners[telegram[1]].is_running /\ TelegramStart) =>
                /\ UNCHANGED Components
                /\ life_ret' = LifeReturned("telegram.start", FALSE)
      ]_vars

\* start() was called on a running orchestrator whose listener and task
\* registry are running
C11_Witness ==
    /\ life_ret = LifeReturned("start", FALSE)
    /\ is_running
    /\ listeners[telegram[1]].is_running
    /\ tm_running

\* start() was called while an earlier start() is still suspended, and the
\* same for the listener and the task registry
C11_WitnessSuspended ==
    /\ life_ret = LifeReturned("start", FALSE)
    /\ is_running
    /\ Len(starts) = 1
    /\ ~listeners[telegram[1]].is_running
C11_WitnessListener ==
    /\ life_ret = LifeReturned("telegram.start", FALSE)
    /\ listeners[telegram[1]].is_running
C11_WitnessTaskManager ==
    /\ life_ret = LifeReturned("task_manager.start", FALSE)
    /\ tm_running

\* C12: Orchestrator.stop() never raises, whatever the state (before
\* initialize, after an initialize or start that failed partway, while
\* running, after a stop), neither when it is called nor when it resumes
\* from the listener's shutdown, also when that shutdown fails.  The call
\* clears is_running at once and the resumption does not set it, so a
\* stop() that follows a stop(), whether that one has returned or is still
\* suspended, finds the orchestrator not running and changes no state.
C12_StopIdempotent ==
    [][/\ Stop =>
              /\ life_ret'.op = "stop"
              /\ ~life_ret'.raised
              /\ ~is_running'
              /\ life_ret'.acted = is_running
              /\ ~is_running => UNCHANGED Components
              /\ life_ret = LifeSuspended("stop") =>
                    /\ UNCHANGED Components
                    /\ ~life_ret'.acted
       /\ \A i \in 1..MaxInflight, ok \in BOOLEAN :
              StopResume(i, ok) =>
                  /\ ~life_ret'.raised
                  /\ is_running' = is_running
                  /\ life_ret = LifeSuspended("stop") => ~is_running'
      ]_vars

\* stop() was called again after a stop() of a started orchestrator
C12_Witness ==
    /\ life_ret = LifeReturned("stop", FALSE)
    /\ ~is_running
    /\ telegram # None
    /\ listeners[telegram[1]].application # None
    /\ starts = << >>

\* stop() was called again while a stop() was suspended in the shutdown
C12_WitnessWhileSuspended ==
    /\ life_ret = LifeReturned("stop", FALSE)
    /\ \E i \in 1..Len(stops) : stops[i].by = "orchestrator"

\* stop() before initialize, and after an initialize that failed partway
C12_WitnessBeforeInitialize ==
    /\ life_ret = LifeReturned("stop", FALSE)
    /\ agent = None
C12_WitnessPartial ==
    /\ life_ret = LifeReturned("stop", FALSE)
    /\ agent # None
    /\ telegram = None
C12_WitnessRunning ==
    /\ life_ret = LifeReturned("stop", TRUE)
    /\ ~listeners[telegram[1]].is_running
    /\ listeners[telegram[1]].application # None

\* C13: the shared outbound client is released on stop: when stop() of a
\* running orchestrator returns, every client the action registry created
\* before it is closed.
C13_ClientReleasedOnStop ==
    [][/\ (is_running /\ clients # << >> /\ Stop /\ stops' = stops) =>
              \A j \in 1..Len(clients) : clients'[j] = "closed"
       /\ \A i \in 1..MaxInflight, ok \in BOOLEAN :
              (clients # << >> /\ StopResume(i, ok)) =>
                  \A j \in 1..Len(clients) : clients'[j] = "closed"
      ]_vars

\* the orchestrator was stopped after an execution created the client
C13_StoppedWithClient ==
    /\ life_ret = LifeReturned("stop", TRUE)
    /\ session # None
    /\ action_ret.op = "execute"
    /\ action_ret.ran # None

\* objects whose execute method has been entered
Invoked == {ref \in DOMAIN action_objs : action_objs[ref].execution_count > 0}

\* C14: the registry holds a single, lazily created client: none exists
\* before an execute call has passed the lookup and enabled checks, at most
\* one is ever created, and every invoked action that declares set_session
\* holds that one client.
C14_SingleLazyClient ==
    /\ Len(clients) <= 1
    /\ clients # << >> => Invoked # {}
    /\ \A ref \in Invoked :
          HasSetSession(action_objs[ref]) => action_objs[ref].session = Some(1)

\* the same, in the runs that never enter the async context
C14_SingleLazyClientByExecute ==
    /\ Len(clients) <= 1
    /\ session = IF Invoked = {} THEN None ELSE Some(1)
    /\ clients = IF Invoked = {} THEN << >> ELSE <<"open">>
    /\ \A ref \in Invoked :
          HasSetSession(action_objs[ref]) => action_objs[ref].session = Some(1)

\* two clients were created, by execute and then by entering the context,
\* and the first one is still open
C14_ClientLeaked ==
    /\ clients = <<"open", "open">>
    /\ session = Some(2)
    /\ action_ret.op = "aenter"
    /\ Invoked # {}

\* the context was entered before any execute
C14_ClientBeforeExecute ==
    /\ clients # << >>
    /\ Invoked = {}

\* two concurrent executions share the one client
C14_ConcurrentShare ==
    /\ Len(action_calls) = 2
    /\ action_calls[1].ref # action_calls[2].ref
    /\ clients = <<"open">>

\* the required parameter is missing from p or empty
MissingRequired(action_id, p) ==
    RecGet(ParamsOrEmpty(p), Required(action_id), "") = ""

\* the prefix each networked action puts before the message of a failure
FailurePrefix(cls) ==
    CASE cls = "WebSearchAction" -> "Web search failed: "
      [] cls = "HttpRequestAction" -> "HTTP request failed: "
      [] cls = "WeatherAction" -> "Weather lookup failed: "

\* C15: web_search, http_request and weather, executed through the registry:
\* with the required parameter (query, url, location) missing or empty the
\* call returns a result with status "error" and makes no outbound call; a
\* failure of the outbound call or of the read of its response gives the
\* result {status: error, error: message}; every call returns a result.
C15_HttpActionsFailClosed ==
    [][/\ \A id \in HttpIdInputs, p \in HttpParamInputs, env \in EnvInputs :
            Execute(id, p, env) =>
                /\ MissingRequired(id, p) =>
                       /\ action_ret'.op = "execute"
                       /\ action_ret'.action_id = id
                       /\ action_ret'.value.status = "error"
                       /\ action_ret'.value.action_id = id
                       /\ action_calls' = action_calls
                /\ ~MissingRequired(id, p) =>
                       \/ Len(action_calls') = Len(action_calls) + 1
                       \/ /\ action_ret'.value.status = "error"
                          /\ action_calls' = action_calls
       /\ \A i \in 1..Len(action_calls), o \in HttpOutcomeInputs :
            (o \in OutcomesFor(action_objs[action_calls[i].ref].cls) /\ Complete(i, o)) =>
                /\ action_ret'.op = "execute"
                /\ action_ret'.value.status \in {"completed", "error"}
                /\ ~o.ok =>
                       /\ action_ret'.value.status = "error"
                       /\ action_ret'.value.action_id = action_calls[i].action_id
                       /\ action_ret'.value.error =
                             <<FailurePrefix(action_objs[action_calls[i].ref].cls), o.e>>
      ]_vars

\* an http_request whose outbound call failed
C15_Witness ==
    /\ action_ret.op = "execute"
    /\ action_ret.action_id = "http_request"
    /\ action_ret.value.status = "error"
    /\ action_ret.value.error = <<"HTTP request failed: ", "timeout">>

\* each action answered a call without its required parameter
C15_WitnessMissing ==
    /\ action_ret.op = "execute"
    /\ action_ret.action_id = "weather"
    /\ action_ret.value = ParamError(WeatherAction(0), "Location parameter is required")
    /\ action_objs[DictGet(actions, "web_search")].execution_count > 0
    /\ action_objs[DictGet(actions, "http_request")].execution_count > 0
    /\ action_calls = << >>
    /\ clients = <<"open">>

\* a method that is no string: the fault is caught by the registry
C15_WitnessRaised ==
    /\ action_ret.op = "execute"
    /\ action_ret.action_id = "http_request"
    /\ action_ret.value = RaisedResult("http_request",
                                       "'int' object has no attribute 'upper'")

\* the response was read but holds no current condition
C15_WitnessResponse ==
    /\ action_ret.op = "execute"
    /\ action_ret.action_id = "weather"
    /\ action_ret.value.status = "error"
    /\ action_ret.value.error = <<"Weather lookup failed: ", "list index out of range">>

\* C16: the agent wrapper's transcript is append-only: process_message,
\* think, analyze, get_session_history, clear_session_history and
\* get_model_info never remove or rewrite an entry already in it.
C16_TranscriptAppendOnly ==
    [][AgentOps => IsPrefix(session_history, session_history')]_vars

\* C16, as the code has it: every operation of the agent wrapper but
\* clear_session_history keeps the entries already in the transcript, in
\* place; clear_session_history empties the transcript.
C16_AppendOnlyUntilCleared ==
    [][/\ (AgentOps /\ ~ClearSessionHistory) =>
              IsPrefix(session_history, session_history')
       /\ ClearSessionHistory => session_history' = << >>
      ]_vars

\* a transcript of two exchanges was cleared
C16_Witness ==
    /\ agent_ret.op = "clear_session_history"
    /\ agent_ret.before = 4
    /\ session_history = << >>

\* think ran on a transcript of two exchanges and left it as it was
C16_WitnessKept ==
    /\ agent_ret.op = "think"
    /\ Len(session_history) = 4

\* user and assistant entries in turn, the user first
EvenAlternating(h) ==
    /\ Len(h) % 2 = 0
    /\ \A i \in 1..Len(h) : h[i].role = IF i % 2 = 1 THEN "user" ELSE "assistant"

\* C17: a process_message call that obtains a reply appends exactly two
\* entries, the user's message and then the assistant's reply that the call
\* returns; a call whose agent run fails appends nothing; the transcript
\* always has even length with user and assistant entries alternating.
C17_TwoEntriesPerReply ==
    [][/\ \A m \in MessageInputs, run \in RunInputs :
            AgentProcessMessage(m, run) =>
                /\ agent_ret'.op = "process_message"
                /\ IF run.raised
                   THEN session_history' = session_history
                   ELSE session_history' =
                           session_history \o
                           <<[role |-> "user", content |-> <<m>>],
                             [role |-> "assistant", content |-> agent_ret'.value]>>
       /\ EvenAlternating(session_history)
       /\ EvenAlternating(session_history')
      ]_vars

\* a second exchange was appended, its reply the formatting text
C17_Witness ==
    /\ agent_ret.op = "process_message"
    /\ agent_ret.fault = "extract_response"
    /\ Len(session_history) = 4
    /\ session_history[4].content = FormattingTrouble
    /\ agent_ret.value = FormattingTrouble

\* the agent run failed on a transcript of one exchange
C17_WitnessNoReply ==
    /\ agent_ret.op = "process_message"
    /\ agent_ret.fault = "agent_run"
    /\ Len(session_history) = 2

\* C19: every GET /health is answered with status 200 and the body
\* {"status": "healthy"}, whatever the state of the agent and whatever
\* startup and shutdown events have occurred.
C19_HealthAlwaysHealthy ==
    [][\A method \in MethodInputs, path \in PathInputs :
          (method = "GET" /\ path = "/health" /\ WebRequest(method, path)) =>
              web_ret'.response = [status_code |-> 200, body |-> [status |-> "healthy"]]
      ]_vars

\* GET /health was answered after shutdown, the agent holding a transcript
C19_Witness ==
    /\ web_ret.op = "request"
    /\ web_ret.method = "GET"
    /\ web_ret.path = "/health"
    /\ web_ret.response.status_code = 200
    /\ web_events = <<"startup", "shutdown">>
    /\ session_history # << >>

\* GET /health was answered before any startup event and before any agent exists
C19_WitnessEarly ==
    /\ web_ret.op = "request"
    /\ web_ret.method = "GET"
    /\ web_ret.path = "/health"
    /\ web_ret.response.body = [status |-> "healthy"]
    /\ web_events = << >>
    /\ agent = None

\* the calls of a handler run without their outcomes
Sent(trace) ==
    [i \in 1..Len(trace) |-> [f \in DOMAIN trace[i] \ {"ok"} |-> trace[i][f]]]

\* C18: for every inbound free-text message the handler emits the typing
\* indicator, then forwards (text, user id, chat id) to handle_message
\* exactly once, then replies with exactly the returned string, and does
\* nothing else; without an orchestrator it forwards nothing and replies
\* with the fixed fallback string.  Stated of every handler call that ends.
C18_HandlerForwardsOnce ==
    [][\A i \in 1..MaxInflight, run \in TgRunInputs, ok \in BOOLEAN :
          (ListenerResume(i, run, ok) /\ Len(tg_calls') < Len(tg_calls)) =>
              LET f == tg_calls[i] IN
              Sent(tg_trace') =
                  IF f.orch
                  THEN Sent(<<ChatAction(DecStr(f.chat), TRUE),
                              Forward(f.message, DecStr(f.user), DecStr(f.chat)),
                              ReplyText(f.response, TRUE)>>)
                  ELSE Sent(<<ChatAction(DecStr(f.chat), TRUE),
                              ReplyText(<<"U+274C",
                                          " System not ready. Orchestrator not connected.">>,
                                        TRUE)>>)
      ]_vars

\* C18, as the code has it: the handler always asks for the typing indicator
\* first.  When that call returns, the message is forwarded once, at that
\* moment, and the reply is the returned string (the fallback string without
\* an orchestrator, which forwards nothing).  When the typing call fails
\* nothing is forwarded, the orchestrator is untouched and the reply is the
\* error text.  When the reply call fails the message was forwarded once and
\* a second reply, the error text, is attempted.  No other step of the
\* handler touches the orchestrator.
C18_HandlerForwardsOnceIfSent ==
    [][\A i \in 1..MaxInflight, run \in TgRunInputs, ok \in BOOLEAN :
          ListenerResume(i, run, ok) =>
              LET f == tg_calls[i]
                  typing == ChatAction(DecStr(f.chat), TRUE)
                  forward == Forward(f.message, DecStr(f.user), DecStr(f.chat))
                  fallback == <<"U+274C", " System not ready. Orchestrator not connected.">>
                  error == <<"U+274C", " I encountered an error processing your message: ",
                             "Timed out">>
                  happy == IF f.orch THEN <<typing, forward>> ELSE <<typing>>
                  ended == Len(tg_calls') < Len(tg_calls)
              IN
              /\ (f.at = "send_chat_action" /\ ok /\ f.orch) =>
                    /\ Logged(hm_log', <<DecStr(f.user), DecStr(f.chat)>>) =
                          Logged(hm_log, <<DecStr(f.user), DecStr(f.chat)>>) + 1
                    /\ TotalLogged(hm_log') = TotalLogged(hm_log) + 1
                    /\ tg_calls'[i].response = hm_ret'.value
                    /\ tg_calls'[i].trace = happy
                    /\ tg_calls'[i].at = "reply_text"
              /\ ~(f.at = "send_chat_action" /\ ok /\ f.orch) =>
                    UNCHANGED <<session_data, session_history, hm_log, hm_ret>>
              /\ (f.at = "send_chat_action" /\ ok /\ ~f.orch) =>
                    /\ tg_calls'[i].response = fallback
                    /\ tg_calls'[i].trace = happy
                    /\ tg_calls'[i].at = "reply_text"
              /\ (f.at = "send_chat_action" /\ ~ok) =>
                    /\ tg_calls'[i].trace = <<ChatAction(DecStr(f.chat), FALSE)>>
                    /\ tg_calls'[i].at = "error_reply"
              /\ f.at = "reply_text" => f.trace = happy
              /\ (f.at = "reply_text" /\ ok) =>
                    /\ ended
                    /\ tg_trace' = Append(happy, ReplyText(f.response, TRUE))
              /\ (f.at = "reply_text" /\ ~ok) =>
                    /\ tg_calls'[i].trace = Append(happy, ReplyText(f.response, FALSE))
                    /\ tg_calls'[i].at = "error_reply"
              /\ f.at = "error_reply" =>
                    /\ ended
                    /\ \/ f.trace = <<ChatAction(DecStr(f.chat), FALSE)>>
                       \/ f.trace = Append(happy, ReplyText(f.response, FALSE))
                    /\ SubSeq(tg_trace', 1, Len(f.trace) + 1) =
                          Append(f.trace, ReplyText(error, ok))
                    /\ Len(tg_trace') = Len(f.trace) + (IF ok THEN 1 ELSE 2)
              /\ ~ended => tg_trace' = tg_trace
      ]_vars

\* a message was forwarded and answered with the agent's reply
C18_Witness ==
    /\ Len(tg_trace) = 3
    /\ tg_trace[2].kind = "handle_message"
    /\ tg_trace[2].chat_id = <<"-", "1", "0", "0", "9">>
    /\ tg_trace[3] = ReplyText(<<"hello">>, TRUE)
    /\ hm_ret.value = <<"hello">>

\* the typing indicator failed: nothing forwarded, the error text sent
C18_WitnessTypingFailed ==
    /\ Len(tg_trace) = 2
    /\ tg_trace[1] = ChatAction(DecStr(0 - 1009), FALSE)
    /\ tg_trace[2] = ReplyText(ErrorReply(TimedOut), TRUE)
    /\ telegram # None
    /\ hm_log = << >>

\* the reply failed after the message was forwarded
C18_WitnessReplyFailed ==
    /\ Len(tg_trace) = 4
    /\ tg_trace[2].kind = "handle_message"
    /\ ~tg_trace[3].ok
    /\ tg_trace[4] = ReplyText(ErrorReply(TimedOut), TRUE)

\* a listener without an orchestrator answered with the fallback string
C18_WitnessFallback ==
    /\ tg_trace = <<ChatAction(DecStr(0 - 1009), TRUE), ReplyText(FallbackReply, TRUE)>>

\* the typing indicator and the error reply both failed: two calls, then
\* the exception leaves the handler
C18_WitnessBothFailed ==
    /\ tg_trace = <<ChatAction(DecStr(0 - 1009), FALSE), ReplyText(ErrorReply(TimedOut), FALSE),
                    HandlerRaised(TimedOut)>>

\* two handler calls are in flight, one waiting for its reply to be sent
\* and one for the typing indicator
C18_WitnessInterleaved ==
    /\ Len(tg_calls) = 2
    /\ tg_calls[1].at = "reply_text"
    /\ tg_calls[1].orch
    /\ tg_calls[2].at = "send_chat_action"

\* every value the spec calls required is present in env
AllPresent(env) ==
    env.model_name # None /\ env.openai_api_key /\ env.telegram_bot_token

\* no orchestrator was created or started, and no message handled
NothingStarted ==
    /\ agent = None
    /\ telegram = None
    /\ ~is_running
    /\ starts = << >>
    /\ hm_log = << >>

\* C20: if any required environment value (model name, API credentials,
\* bot token) is absent at startup, startup fails before any orchestrator is
\* created or started: the system never runs and never handles a message
\* with a value missing.
C20_StartupNeedsAllValues ==
    /\ (app_ret.op = "Application" /\ ~AllPresent(app_ret.env)) =>
            (app_ret.raised /\ app = None)
    /\ (app = None \/ ~AllPresent(app[1].env)) => NothingStarted

\* C20, as the code has it: startup fails, before any orchestrator is
\* created, when the bot token or the API key is absent or empty; an absent
\* model name is no error, the orchestrator is created with "gpt-4o".
C20_StartupNeedsKeyAndToken ==
    /\ app_ret.op = "Application" =>
          /\ app_ret.raised <=>
                ~(app_ret.env.openai_api_key /\ app_ret.env.telegram_bot_token)
          /\ app_ret.raised <=> app = None
    /\ app = None => NothingStarted
    /\ app # None =>
          /\ app[1].env.openai_api_key
          /\ app[1].env.telegram_bot_token
          /\ app[1].orchestrator = None => NothingStarted
          /\ app[1].orchestrator # None =>
                app[1].orchestrator[1].model_name =
                    IF app[1].env.model_name = None THEN "gpt-4o"
                    ELSE app[1].env.model_name[1]

\* construction failed for want of the API key
C20_Witness ==
    /\ app_ret.op = "Application"
    /\ app_ret.raised
    /\ ~app_ret.env.openai_api_key
    /\ app_ret.env.telegram_bot_token
    /\ app = None

\* without a model name the system runs and has handled a message
C20_WitnessDefaultModel ==
    /\ app # None
    /\ app[1].env.model_name = None
    /\ app[1].running
    /\ is_running
    /\ hm_log # << >>
    /\ agent_ret.op = "get_model_info"
    /\ agent_ret.info.model_name = "gpt-4o"

\* C21: handle_message calls in flight together, interleaved at the awaited
\* agent call, lose no update and make no record twice: once all calls have
\* returned, every pair that sent a message has a session record whose
\* message_count is the number of calls made for that pair.
C21_NoLostUpdate ==
    hm_calls = << >> =>
        \A u \in UserIdInputs, c \in ChatIdInputs :
            Logged(hm_log, <<u, c>>) > 0 =>
                /\ HasSession(u, c)
                /\ GetSessionData(u, c).message_count = Logged(hm_log, <<u, c>>)

\* what holds instead, in every state: the keys of the session records are
\* distinct, and each record counts the calls made so far for every pair
\* that formats to its key
C21_CountsPerKey ==
    /\ \A i, j \in 1..Len(session_data) :
          session_data[i].k = session_data[j].k => i = j
    /\ SessionCountsKeyMessages

\* two calls of one pair were in flight together and have both returned
C21_BothReturned ==
    /\ hm_calls = << >>
    /\ agent # None
    /\ Logged(hm_log, <<(<<"7">>), (<<"9">>)>>) = 2
    /\ Len(session_history) = 4
    /\ GetSessionData(<<"7">>, <<"9">>).message_count = 2

\* two calls of one pair are in flight together
C21_TwoInFlight ==
    /\ Len(hm_calls) = 2
    /\ hm_calls[1].key = hm_calls[2].key

\* C22: last_execution of an action is set only after an execution attempt
\* has completed: while the outbound call of an attempt is in flight the
\* action does not carry that attempt's timestamp, and an action whose
\* attempts are all still in flight has no last_execution.
C22_StampedAfterCompletion ==
    \A i \in 1..Len(action_calls) :
        LET call == action_calls[i]
            obj == action_objs[call.ref]
            inflight == {j \in 1..Len(action_calls) : action_calls[j].ref = call.ref}
        IN /\ obj.last_execution # Some(call.start)
           /\ obj.execution_count = Cardinality(inflight) => obj.last_execution = None

\* the first attempt of a web search is in flight and the action already
\* carries its timestamp and its count
C22_StampedInFlight ==
    /\ Len(action_calls) = 1
    /\ action_calls[1].action_id = "web_search"
    /\ action_objs[action_calls[1].ref].execution_count = 1
    /\ action_objs[action_calls[1].ref].last_execution = Some(action_calls[1].start)

\* a task's last_run: Task.execute has no await, so last_run is absent
\* exactly while the task has never run
C22_LastRunWithRun ==
    \A ref \in DOMAIN task_objs :
        (task_objs[ref].last_run = None) <=> (task_objs[ref].run_count = 0)

\* C23: start() on an orchestrator that is not running initializes whenever
\* one of the four components (agent, action registry, task registry,
\* listener) has not been constructed, also after an initialize() that
\* failed partway: it ends with what that initialize() raises, or with all
\* four components constructed and the listener being started.
C23_StartInitializesMissing ==
    [][\A env \in InitEnvInputs :
          (/\ ~is_running
           /\ (agent = None \/ action_manager = None \/ task_manager = None
                  \/ telegram = None)
           /\ Start(env)) =>
              IF env.openai_api_key /\ env.telegram_bot_token
              THEN /\ agent' # None /\ action_manager' # None
                   /\ task_manager' # None /\ telegram' # None
                   /\ ~life_ret'.raised
                   /\ is_running'
              ELSE /\ life_ret' = LifeRaised("start", InitializeResult(env).e)
                   /\ ~is_running'
      ]_vars

\* what start() does: it initializes exactly when the agent is missing, so a
\* start() that finds the agent but no listener leaves the components as
\* they are and raises the AttributeError of None
C23_StartInitializesWithoutAgent ==
    [][\A env \in InitEnvInputs :
          (~is_running /\ agent # None /\ telegram = None /\ Start(env)) =>
              /\ UNCHANGED Components
              /\ life_ret' = LifeRaised("start",
                                        "'NoneType' object has no attribute 'start'")
      ]_vars

\* start() with every environment value set has raised on an orchestrator
\* whose initialize() had stopped before the listener
C23_StartAfterPartial ==
    /\ life_ret = LifeRaised("start", "'NoneType' object has no attribute 'start'")
    /\ agent # None
    /\ task_manager # None
    /\ telegram = None
    /\ ~is_running

\* C24: the agent wrapper that initialize() constructs has the action
\* toolkit in its tool set, bound to the orchestrator, so that the agent's
\* action tool calls reach execute_action.
C24_AgentHasActionTools ==
    agent # None =>
        /\ agent[1].orchestrator # None
        /\ \E i \in 1..Len(agent[1].tools) :
              /\ agent[1].tools[i] # "ReasoningTools"
              /\ agent[1].tools[i].toolkit = "ActionTools"

\* what initialize() constructs: an agent without an orchestrator, whose
\* only toolkit is the reasoning one
C24_AgentReasoningOnly ==
    agent # None =>
        /\ agent[1].orchestrator = None
        /\ agent[1].tools = <<"ReasoningTools">>

\* initialize() has returned with all four components constructed
C24_Initialized ==
    /\ life_ret = LifeReturned("initialize", TRUE)
    /\ agent # None
    /\ action_manager # None
    /\ telegram # None

\* the field of response r that _extract_response is to read: the first of
\* content, response, message, text that r has with a non-empty value, and
\* "str" (the whole object) when there is none
C25_Chosen(r) ==
    LET has(f) == f \in DOMAIN r /\ r[f] # "" IN
    IF has("content") THEN "content"
    ELSE IF has("response") THEN "response"
    ELSE IF has("message") THEN "message"
    ELSE IF has("text") THEN "text"
    ELSE "str"

\* C25 as stated: _extract_response returns the string form of the first
\* field, in the order content, response, message, text, that the response
\* has with a non-empty value, and the string coercion of the whole response
\* when there is none.
C25_ExtractFirstField ==
    agent_ret.op = "_extract_response" =>
        agent_ret.text = <<agent_ret.run_response[C25_Chosen(agent_ret.run_response)]>>

\* C25, amended: that holds when the chosen value can be tested and
\* converted; when its truth test or str() raises, _extract_response returns
\* the fixed formatting text.  It returns a text in either case.
C25_ExtractFirstFieldOrTrouble ==
    agent_ret.op = "_extract_response" =>
        LET picked == agent_ret.run_response[C25_Chosen(agent_ret.run_response)] IN
        agent_ret.text = IF picked = Unprintable
                         THEN <<"I generated a response but had trouble formatting it properly.">>
                         ELSE <<picked>>

\* content is empty, response is absent: the text of message was returned,
\* not that of text
C25_Witness ==
    /\ agent_ret.op = "_extract_response"
    /\ DOMAIN agent_ret.run_response = {"content", "message", "text", "str"}
    /\ agent_ret.run_response.content = ""
    /\ agent_ret.run_response.message = "a"
    /\ agent_ret.run_response.text = "b"
    /\ agent_ret.text = <<"a">>

\* no field has a value: str() of the whole response was returned
C25_WitnessWhole ==
    /\ agent_ret.op = "_extract_response"
    /\ DOMAIN agent_ret.run_response = {"content", "str"}
    /\ agent_ret.run_response.content = ""
    /\ agent_ret.text = <<"b">>

\* the conversion raised: the formatting text was returned
C25_WitnessTrouble ==
    /\ agent_ret.op = "_extract_response"
    /\ "response" \in DOMAIN agent_ret.run_response
    /\ agent_ret.run_response.response = Unprintable
    /\ agent_ret.text = FormattingTrouble

\* C26: when stop() of a running orchestrator returns, nothing is left
\* running: health_check reports orchestrator, telegram and task_manager all
\* false, also when a shutdown call of the listener fails.
C26_NothingRunningAfterStop ==
    [][/\ (is_running /\ Stop /\ stops' = stops) =>
              /\ ~HealthCheck'.orchestrator
              /\ ~HealthCheck'.telegram
              /\ ~HealthCheck'.task_manager
       /\ \A i \in 1..MaxInflight, ok \in BOOLEAN :
              (StopResume(i, ok) /\ stops[i].by = "orchestrator") =>
                  /\ ~HealthCheck'.orchestrator
                  /\ ~HealthCheck'.telegram
                  /\ ~HealthCheck'.task_manager
      ]_vars

\* what a stop() that returns leaves: the task registry is reported not
\* running, and the listener it was stopping is reported running exactly
\* when it was running and its shutdown failed; the orchestrator's flag was
\* cleared when stop() was called and is as a start() in between left it
C26_ListenerLeftWhenShutdownFails ==
    [][\A i \in 1..MaxInflight, ok \in BOOLEAN :
          (StopResume(i, ok) /\ stops[i].by = "orchestrator") =>
              /\ ~HealthCheck'.task_manager
              /\ is_running' = is_running
              /\ (telegram # None /\ telegram[1] = stops[i].listener) =>
                    HealthCheck'.telegram = (HealthCheck.telegram /\ ~ok)
      ]_vars

\* stop() of a started orchestrator has returned and the listener is still
\* reported running
C26_StoppedListenerRunning ==
    /\ life_ret = LifeReturned("stop", TRUE)
    /\ HealthCheck.telegram
    /\ ~HealthCheck.orchestrator
    /\ ~HealthCheck.task_manager
    /\ starts = << >>

\* stop() is suspended in the listener's shutdown: the orchestrator is
\* reported not running, the listener and the task registry still are
C26_StopSuspended ==
    /\ life_ret = LifeSuspended("stop")
    /\ ~HealthCheck.orchestrator
    /\ HealthCheck.telegram
    /\ HealthCheck.task_manager

\* a start() ran while stop() was suspended, and stop() has returned: the
\* orchestrator is reported running, the listener and the task registry are
\* not, and no call is in flight
C26_StartedDuringStop ==
    /\ life_ret = LifeReturned("stop", TRUE)
    /\ HealthCheck.orchestrator
    /\ ~HealthCheck.telegram
    /\ ~HealthCheck.task_manager
    /\ starts = << >>
    /\ stops = << >>

\* C27: in every observable state, the suspension points inside start() and
\* stop() included, a health_check that reports orchestrator = true also
\* reports agent and action_manager present and telegram and task_manager
\* running.
C27_HealthConsistent ==
    HealthCheck.orchestrator =>
        /\ HealthCheck.agent
        /\ HealthCheck.action_manager
        /\ HealthCheck.telegram
        /\ HealthCheck.task_manager

\* the part that holds in every state: a running orchestrator has its agent,
\* its action registry and a listener object
C27_RunningHasComponents ==
    HealthCheck.orchestrator =>
        /\ HealthCheck.agent
        /\ HealthCheck.action_manager
        /\ telegram # None
        /\ task_manager # None

\* start() is suspended in the listener's start: the orchestrator is
\* reported running, the listener and the task registry are not
C27_RunningBeforeListener ==
    /\ life_ret = LifeSuspended("start")
    /\ Len(starts) = 1
    /\ HealthCheck.orchestrator
    /\ ~HealthCheck.telegram
    /\ ~HealthCheck.task_manager

\* C28: distinct (user_id, chat_id) pairs never share a session record:
\* get_session_data for a pair returns nothing before that pair's first
\* message, and afterwards a record written for that pair, never one
\* written for another pair.
C28_SessionsIsolated ==
    \A u \in UserIdInputs, c \in ChatIdInputs :
        IF Logged(hm_log, <<u, c>>) = 0
        THEN GetSessionData(u, c) = EmptyDict
        ELSE /\ GetSessionData(u, c).user_id = u
             /\ GetSessionData(u, c).chat_id = c
             /\ \A u2 \in UserIdInputs, c2 \in ChatIdInputs :
                   (<<u2, c2>> # <<u, c>> /\ Logged(hm_log, <<u2, c2>>) > 0) =>
                       SessionKey(u2, c2) # SessionKey(u, c)

\* what holds: records are kept apart by key. get_session_data for a pair
\* returns a record exactly when some pair that formats to the same key has
\* sent a message, and the record carries the ids of such a pair.
C28_IsolatedByKey ==
    \A u \in UserIdInputs, c \in ChatIdInputs :
        LET same == {q \in UserIdInputs \X ChatIdInputs :
                        /\ SessionKey(q[1], q[2]) = SessionKey(u, c)
                        /\ Logged(hm_log, q) > 0}
        IN IF same = {} THEN GetSessionData(u, c) = EmptyDict
           ELSE \E q \in same : /\ GetSessionData(u, c).user_id = q[1]
                                 /\ GetSessionData(u, c).chat_id = q[2]

\* get_session_data for a pair that never sent a message returns the record
\* of another pair
C28_ForeignRecordReturned ==
    /\ Logged(hm_log, <<(<<"7">>), (<<"8", "_", "9">>)>>) = 0
    /\ HasSession(<<"7">>, <<"8", "_", "9">>)
    /\ GetSessionData(<<"7">>, <<"8", "_", "9">>).user_id = <<"7", "_", "8">>
    /\ GetSessionData(<<"7">>, <<"8", "_", "9">>).last_message = "hi"

\* C29: an ActionManager.execute call that is rejected, because the id is
\* not registered or the action is disabled, changes nothing: no action's
\* execution_count or last_execution, neither the registered ids nor the
\* enabled flags, and no HTTP client is created or attached to an action.
\* The call returns an error result at once.
C29_RejectedExecuteChangesNothing ==
    [][\A id \in ClientIdInputs, p \in ClientParamInputs, env \in EnvInputs :
          (/\ ~DictHas(actions, id) \/ ~ActionOf(id).enabled
           /\ Execute(id, p, env)) =>
              /\ action_objs' = action_objs
              /\ actions' = actions
              /\ session' = session
              /\ clients' = clients
              /\ action_calls' = action_calls
              /\ action_ret'.ran = None
              /\ action_ret'.value.status = "error"
      ]_vars

\* a disabled web search was rejected before any client existed, and none
\* exists afterwards
C29_Witness ==
    /\ action_ret.op = "execute"
    /\ action_ret.action_id = "web_search"
    /\ action_ret.value = DisabledResult("web_search")
    /\ ~ActionOf("web_search").enabled
    /\ ActionOf("web_search").session = None
    /\ session = None
    /\ clients = << >>

\* an unknown id was rejected while a web search is in flight on the
\* registry's client
C29_WitnessUnknown ==
    /\ action_ret.op = "execute"
    /\ action_ret.action_id = "does_not_exist"
    /\ action_ret.ran = None
    /\ Len(action_calls) = 1
    /\ session # None

\* C30: the standalone bot's handle_message sends exactly one reply per
\* inbound text message: the reply text of the agent whenever
\* process_message returns normally (which it always does), the fixed
\* apology only when processing raised.  Stated of every handler call that
\* ends.
C30_BotRepliesWithAgentText ==
    [][\A i \in 1..MaxInflight, ok \in BOOLEAN :
          (BotResume(i, ok) /\ Len(tg_calls') < Len(tg_calls)) =>
              /\ Cardinality({j \in 1..Len(tg_trace') :
                                 tg_trace'[j].kind = "reply_text"}) = 1
              /\ tg_trace'[1].kind = "reply_text"
              /\ tg_trace'[1].text = tg_calls[i].response
      ]_vars

\* what the handler does: process_message returns a str and the exchange
\* is in the transcript from then on; reading .content of the str raises,
\* so the handler waits for the reply of the except branch, and the one
\* reply sent when it ends is the fixed apology whatever the agent answered
C30_BotAlwaysApologizes ==
    [][/\ \A m \in BotMessageInputs, run \in RunInputs :
              BotHandleMessage(m, run) =>
                  /\ session_history' = ProcessMessage(session_history, m, run).history
                  /\ tg_trace' = tg_trace
                  /\ tg_calls'[Len(tg_calls')].at = "error_reply"
                  /\ tg_calls'[Len(tg_calls')].response =
                        ProcessMessage(session_history, m, run).value
       /\ \A i \in 1..MaxInflight, ok \in BOOLEAN :
              BotResume(i, ok) =>
                  /\ Len(tg_calls') < Len(tg_calls)
                  /\ Cardinality({j \in 1..Len(tg_trace') :
                                     tg_trace'[j].kind = "reply_text"}) = 1
                  /\ tg_trace'[1] = ReplyText(BotApology, ok)
                  /\ session_history' = session_history
      ]_vars

\* the agent answered "hello", the transcript has it, and the bot replied
\* with the apology
C30_ApologyForAnswer ==
    /\ Len(session_history) = 2
    /\ session_history[2] = [role |-> "assistant", content |-> <<"hello">>]
    /\ tg_trace = <<ReplyText(BotApology, TRUE)>>
    /\ tg_calls = << >>

\* two handler calls wait for their reply: both exchanges are in the
\* transcript and no handler has ended
C30_TwoSuspended ==
    /\ Len(tg_calls) = 2
    /\ tg_calls[1].message = "hi"
    /\ tg_calls[2].message = "price of kaspa?"
    /\ Len(session_history) = 4
    /\ tg_trace = << >>

\* the second of them ended before the first
C30_EndedOutOfOrder ==
    /\ Len(tg_calls) = 1
    /\ tg_calls[1].message = "hi"
    /\ Len(session_history) = 4
    /\ session_history[3].content = <<"price of kaspa?">>
    /\ tg_trace = <<ReplyText(BotApology, TRUE)>>

====
